---- MODULE Spec2Model ----
(***************************************************************************)
(* stability_sdk.api: the request orchestrator of Context.                *)
(*                                                                         *)
(* One behaviour of Spec is one call of Context._run_request: the state   *)
(* is the Context's retry configuration, the request object (mutated in   *)
(* place by obfuscation retries), the loop index and what the call has    *)
(* done so far.  The remote service is the environment: every dispatch    *)
(* draws its response stream from Responses.                              *)
(*                                                                         *)
(* Optional protobuf fields are sequences of length 0 or 1 (HasField is   *)
(* "non empty").  The schedule start is a float in the source; here it is *)
(* fixed point, in hundredths (ScheduleOne is 1.0).  Seeds stay far below *)
(* the width of the wire field, which the wire schema (not part of the    *)
(* sources) decides.                                                      *)
(***************************************************************************)
EXTENDS Integers, Sequences, FiniteSets, TLC

VARIABLES
    max_retries,            \* Context._max_retries
    retry_obfuscation,      \* Context._retry_obfuscation
    retry_schedule_offset,  \* Context._retry_schedule_offset
    request,                \* the request object _run_request was given
    attempt,                \* the loop index of _run_request
    pc,                     \* "loop" | "returned" | "raised"
    response,               \* the response of the attempt that left the loop
    results,                \* the mapping returned, <<>> until then
    raised,                 \* the exception that left the call
    returned,               \* history: the mappings handed to the caller
    outcomes,               \* history: what each dispatch came to
    sent,                   \* history: the request as sent by each dispatch
    sleeps,                 \* history: the delays slept, in order
    backends,               \* Project._backends, in registration order
    remote,                 \* the project/asset store of the remote service
    files,                  \* the files under LocalFileBackend._projects_root
    metadata_index,         \* Project._metadata_index
    index_file,             \* metadata_index.json: <<>> or << its document >>
    handles,                \* the Project objects the caller holds
    minted,                 \* how many identifiers have been minted so far
    op,                     \* history: the last storage operation
    chain_in,               \* the arguments of a chain-building operation
    chain_rq,               \* the ChainRequest it built, <<>> until then
    pipe_in,                \* the arguments of a pipeline call and the service it meets
    pipe_out,               \* what the call came to, per value of _debug_no_chains
    stream_in,              \* the response stream given to _process_response
    decoded,                \* the mapping it returned, <<>> until then
    process_index,          \* Project._metadata_index of each started process
    process_loaded,         \* history: what each process loaded at init_backends
    process_added,          \* history: the (project, asset) pairs each process added
    process_op              \* history: the last index operation of any process

run_vars == << max_retries, retry_obfuscation, retry_schedule_offset, request,
               attempt, pc, response, results, raised, returned, outcomes,
               sent, sleeps >>

storage_vars == << backends, remote, files, metadata_index, index_file,
                   handles, minted, op >>

chain_vars == << chain_in, chain_rq >>

pipe_vars == << pipe_in, pipe_out >>

decoder_vars == << stream_in, decoded >>

process_vars == << process_index, process_loaded, process_added, process_op >>

vars == << run_vars, storage_vars, chain_vars, pipe_vars, decoder_vars, process_vars >>

(***************************************************************************)
(* Bounds of the model.                                                    *)
(***************************************************************************)
MaxRetriesBound == 2    \* _max_retries ranges over 0..MaxRetriesBound
MaxArtifacts == 2       \* items (and messages) in one response stream

(***************************************************************************)
(* Program constants.                                                      *)
(***************************************************************************)
RetryDelay == 1             \* _retry_delay = 1.0, in seconds
RetryScheduleOffset == 10   \* _retry_schedule_offset = 0.1, in hundredths
ScheduleOne == 100          \* 1.0, in hundredths

Max(a, b) == IF a >= b THEN a ELSE b
Min(a, b) == IF a <= b THEN a ELSE b

RECURSIVE Pow2(_)
Pow2(n) == IF n = 0 THEN 1 ELSE 2 * Pow2(n - 1)

HasField(f) == f # <<>>

(***************************************************************************)
(* Endpoints (Context.__init__).                                           *)
(***************************************************************************)
GenerateEngine == "stable-diffusion-v1-5"
TransformEngine == "transform-server-v1"

(***************************************************************************)
(* Request construction.                                                   *)
(***************************************************************************)
\* Context._build_image_params: seed is a sequence of integers here (the
\* caller's "not seed" and int cases are resolved by the callers below);
\* the schedule is set only when schedule_start is not 1.0.
_build_image_params(seed, schedule_start) ==
    [ transform        |-> "SAMPLER_K_LMS",
      height           |-> 512,
      width            |-> 512,
      seed             |-> seed,
      steps            |-> 50,
      samples          |-> 1,
      masked_area_init |-> "MASKED_AREA_INIT_ORIGINAL",
      parameters       |->
          << [ scaled_step |-> 0,
               sampler     |-> [cfg_scale |-> 7, init_noise_scale |-> 1],
               schedule    |-> IF schedule_start # ScheduleOne
                               THEN << [start |-> << schedule_start >>] >>
                               ELSE <<>> ] >> ]

\* generation.Request as the methods of Context fill it.
Request(engine_id, requested_type, prompt, image, transform) ==
    [ class          |-> "Request",
      engine_id      |-> engine_id,
      requested_type |-> requested_type,
      prompt         |-> prompt,
      image          |-> image,
      transform      |-> transform ]

\* Context.generate up to the request it builds (return_request = True gives
\* exactly this value): text prompts, image parameters with
\* start_schedule = 1.0 - init_strength.
GenerateRequest(prompts, seed, init_strength) ==
    Request(GenerateEngine, "ARTIFACT_NONE", prompts,
            << _build_image_params(seed, ScheduleOne - init_strength) >>,
            <<>>)

\* The single request of Context.transform (one parameter set).
TransformRequest(images, param) ==
    Request(TransformEngine, "ARTIFACT_NONE", images, <<>>, << param >>)

Stage(id, rq, action, target) ==
    [ id        |-> id,
      request   |-> rq,
      on_status |-> << [action |-> << action >>, target |-> target] >> ]

ChainRequest(request_id, stages) ==
    [ class |-> "ChainRequest", request_id |-> request_id, stage |-> stages ]

\* Context.transform with two or more parameter sets, chain mode.
TransformChain(images, params) ==
    ChainRequest("xform_chain",
        [ idx \in 1..Len(params) |->
            LET final == (idx = Len(params)) IN
            Stage(ToString(idx - 1),
                  Request(TransformEngine, "ARTIFACT_NONE",
                          IF idx = 1 THEN images ELSE <<>>,
                          <<>>, << params[idx] >>),
                  IF final THEN "STAGE_ACTION_RETURN" ELSE "STAGE_ACTION_PASS",
                  IF final THEN <<>> ELSE << ToString(idx) >>) ])

\* Context.transform_3d, chain mode.
Transform3dChain(images, depth_calc, transform) ==
    LET op_id == IF transform = "resample" THEN "resample" ELSE "camera_pose"
        rq_depth == Request(TransformEngine, "ARTIFACT_TENSOR",
                            << Head(images) >>, <<>>, << depth_calc >>)
        rq_transform == Request(TransformEngine, "ARTIFACT_NONE",
                                images, <<>>, << transform >>)
    IN  ChainRequest(op_id \o "_3d_chain",
            << Stage("depth_calc", rq_depth, "STAGE_ACTION_PASS", << op_id >>),
               Stage(op_id, rq_transform, "STAGE_ACTION_RETURN", <<>>) >>)

\* A variant whose stages pass to str(idx), their own id, not to str(idx+1).
TransformAndGenerateChainOwnTarget(image, params, generate_request) ==
    ChainRequest("xform_gen_chain",
        [ idx \in 1..(Len(params) + 1) |->
            IF idx <= Len(params)
            THEN Stage(ToString(idx - 1),
                       Request(TransformEngine, "ARTIFACT_TENSOR",
                               << image >>, <<>>, << params[idx] >>),
                       "STAGE_ACTION_PASS", << ToString(idx - 1) >>)
            ELSE Stage(ToString(Len(params)), generate_request,
                       "STAGE_ACTION_RETURN", <<>>) ])

\* Context.transform_and_generate with a non-empty params, chain mode.
TransformAndGenerateChain(image, params, generate_request) ==
    ChainRequest("xform_gen_chain",
        [ idx \in 1..(Len(params) + 1) |->
            IF idx <= Len(params)
            THEN Stage(ToString(idx - 1),
                       Request(TransformEngine, "ARTIFACT_TENSOR",
                               << image >>, <<>>, << params[idx] >>),
                       "STAGE_ACTION_PASS", << ToString(idx) >>)
            ELSE Stage(ToString(Len(params)), generate_request,
                       "STAGE_ACTION_RETURN", <<>>) ])

(***************************************************************************)
(* The remote service: artifacts, messages, response streams, failures.    *)
(***************************************************************************)
ImageArtifact == [type |-> "ARTIFACT_IMAGE", binary |-> "png_a"]

ClassifierPass == [type |-> "ARTIFACT_CLASSIFICATIONS", classifier |-> [realized_action |-> "ACTION_PASS", exceeds |-> <<>>]]

ClassifierObfuscateA == [type |-> "ARTIFACT_CLASSIFICATIONS", classifier |-> [realized_action |-> "ACTION_OBFUSCATE", exceeds |-> << "nsfw" >>]]

ClassifierObfuscateB == [type |-> "ARTIFACT_CLASSIFICATIONS", classifier |-> [realized_action |-> "ACTION_OBFUSCATE", exceeds |-> << "violence" >>]]

Artifacts == { ImageArtifact, ClassifierPass, ClassifierObfuscateA, ClassifierObfuscateB }

SeqsUpTo(S, n) == UNION { [1..k -> S] : k \in 0..n }

\* One message of a response stream (generation.Answer): resp.artifacts.
Messages == { [artifacts |-> a] : a \in SeqsUpTo(Artifacts, MaxArtifacts) }

RECURSIVE Flatten(_)
Flatten(stream) == IF stream = <<>> THEN <<>> ELSE Head(stream).artifacts \o Flatten(Tail(stream))

\* The streams of at most msgs messages holding at most budget artifacts.
RECURSIVE StreamsWithin(_, _)
StreamsWithin(msgs, budget) ==
    IF msgs = 0 THEN { <<>> }
    ELSE { <<>> } \cup UNION { { << m >> \o s : s \in StreamsWithin(msgs - 1, budget - Len(m.artifacts)) } :
                                 m \in { x \in Messages : Len(x.artifacts) <= budget } }

Streams == StreamsWithin(MaxArtifacts, MaxArtifacts)

\* grpc.RpcError values: a code (absent on a bare RpcError) and details.
RpcErrors ==
    { [code |-> << "UNAVAILABLE" >>, details |-> "connection reset"],
      [code |-> << "RESOURCE_EXHAUSTED" >>, details |-> "out of credits"],
      [code |-> <<>>, details |-> ""] }

\* What one dispatch yields: the messages received, and the failure (if any)
\* that ends the stream after them.  A failure counts as one item of the
\* stream: it comes after fewer than MaxArtifacts artifacts.
Responses ==
    { [stream |-> s, error |-> <<>>] : s \in Streams }
    \cup { [stream |-> s, error |-> << r >>] : s \in { t \in Streams : Len(Flatten(t)) < MaxArtifacts }, r \in RpcErrors }

(***************************************************************************)
(* What the stages of a pipeline compute.  A stage is deterministic: its   *)
(* output is a function of its parameters and of the last prompt of its    *)
(* request (the tensor handed to it, or its init image).                   *)
(***************************************************************************)
StageOps == { "color_adjust", "depth_calc", "resample", "camera_pose" }

\* The tensor of a transform stage asked for ARTIFACT_TENSOR.
Tensor(param, input) == param \o "(" \o input \o ")"

\* The encoded image of a transform stage that answers with an image.
Warp(param, input) == "png(" \o param \o "(" \o input \o "))"

\* The encoded image of a generation with the given first seed and schedule
\* start (-1: no schedule start).
Png(seed, start, input) == "png(" \o ToString(seed) \o "," \o ToString(start) \o "," \o input \o ")"

StageInputs ==
    LET t0 == { "image", "image_b" }
        t1 == { Tensor(p, i) : p \in StageOps, i \in t0 }
        t2 == { Tensor(p, i) : p \in StageOps, i \in t1 }
    IN  t0 \cup t1 \cup t2

RenderedPngs ==
    { Warp(p, i) : p \in StageOps, i \in StageInputs }
    \cup { Png(s, t, i) : s \in 0..(8 + MaxRetriesBound),
                          t \in { -1 } \cup { 10 * k : k \in 0..10 },
                          i \in StageInputs }

(***************************************************************************)
(* Artifact decoder: Context._process_response.                            *)
(***************************************************************************)
\* cv2.imdecode of the artifact's bytes; None when they are no image.
ImDecode(binary) ==
    IF binary = "png_a" THEN "pixels_a"
    ELSE IF binary \in RenderedPngs THEN "pixels_of_" \o binary
    ELSE "None"

\* A variant that puts each decoded value in front of the earlier ones.
ProcessArtifactNewestFirst(res, artifact) ==
    LET r1 == IF artifact.type \in DOMAIN res THEN res ELSE res @@ (artifact.type :> <<>>)
    IN  IF artifact.type = "ARTIFACT_CLASSIFICATIONS"
        THEN [r1 EXCEPT ![artifact.type] = << artifact.classifier >> \o @]
        ELSE IF artifact.type \in {"ARTIFACT_DEPTH", "ARTIFACT_IMAGE", "ARTIFACT_MASK"}
        THEN [r1 EXCEPT ![artifact.type] = << ImDecode(artifact.binary) >> \o @]
        ELSE IF artifact.type = "ARTIFACT_TENSOR"
        THEN [r1 EXCEPT ![artifact.type] = << artifact.tensor >> \o @]
        ELSE IF artifact.type = "ARTIFACT_TEXT"
        THEN [r1 EXCEPT ![artifact.type] = << artifact.text >> \o @]
        ELSE IF artifact.type = "ARTIFACT_VIDEO"
        THEN [r1 EXCEPT ![artifact.type] = << artifact.binary >> \o @]
        ELSE r1

\* The body of the inner loop for one artifact.
ProcessArtifact(res, artifact) ==
    LET r1 == IF artifact.type \in DOMAIN res THEN res ELSE res @@ (artifact.type :> <<>>)
    IN  IF artifact.type = "ARTIFACT_CLASSIFICATIONS"
        THEN [r1 EXCEPT ![artifact.type] = Append(@, artifact.classifier)]
        ELSE IF artifact.type \in {"ARTIFACT_DEPTH", "ARTIFACT_IMAGE", "ARTIFACT_MASK"}
        THEN [r1 EXCEPT ![artifact.type] = Append(@, ImDecode(artifact.binary))]
        ELSE IF artifact.type = "ARTIFACT_TENSOR"
        THEN [r1 EXCEPT ![artifact.type] = Append(@, artifact.tensor)]
        ELSE IF artifact.type = "ARTIFACT_TEXT"
        THEN [r1 EXCEPT ![artifact.type] = Append(@, artifact.text)]
        ELSE IF artifact.type = "ARTIFACT_VIDEO"
        THEN [r1 EXCEPT ![artifact.type] = Append(@, artifact.binary)]
        ELSE r1

RECURSIVE ProcessArtifacts(_, _)
ProcessArtifacts(res, artifacts) ==
    IF artifacts = <<>> THEN res
    ELSE ProcessArtifacts(ProcessArtifact(res, Head(artifacts)), Tail(artifacts))

RECURSIVE ProcessMessages(_, _)
ProcessMessages(res, stream) ==
    IF stream = <<>> THEN res
    ELSE ProcessMessages(ProcessArtifacts(res, Head(stream).artifacts), Tail(stream))

\* A variant whose return sits inside the outer loop: only the first message
\* of the stream is decoded.
ProcessFirstMessage(stream) == IF stream = <<>> THEN <<>> ELSE ProcessArtifacts(<<>>, Head(stream).artifacts)

_process_response(stream) == ProcessMessages(<<>>, stream)

(***************************************************************************)
(* Retry/classifier policy: the pieces of Context._run_request.            *)
(***************************************************************************)
\* A variant that looks at the first classification result only.
ObfuscationsFirstResult(res) ==
    IF "ARTIFACT_CLASSIFICATIONS" \in DOMAIN res
       /\ Head(res["ARTIFACT_CLASSIFICATIONS"]).realized_action = "ACTION_OBFUSCATE"
    THEN << Head(res["ARTIFACT_CLASSIFICATIONS"]) >>
    ELSE <<>>

\* The classifier the obfuscation check raises with: the first classification
\* result, in decoded order, whose realized action is OBFUSCATE.
Obfuscations(res) ==
    IF "ARTIFACT_CLASSIFICATIONS" \in DOMAIN res
    THEN SelectSeq(res["ARTIFACT_CLASSIFICATIONS"], LAMBDA c : c.realized_action = "ACTION_OBFUSCATE")
    ELSE <<>>

\* A variant that forgets the final-attempt test.
ClassifierTerminalFlagOnly(a) == a < 0 \/ ~retry_obfuscation

\* A variant that re-raises on the final attempt only, whatever the flag.
ClassifierTerminalFinalOnly(a) == a = max_retries

\* except ClassifierException: the handler re-raises at once.
ClassifierTerminal(a) == a = max_retries \/ ~retry_obfuscation

\* A variant that compares the bound method rpc_error.code, not its result,
\* with the status: never equal.
IsResourceExhaustedUncalled(rpc_error) == HasField(rpc_error.code) /\ FALSE

\* except grpc.RpcError: the out-of-credits test.
IsResourceExhausted(rpc_error) == HasField(rpc_error.code) /\ rpc_error.code[1] = "RESOURCE_EXHAUSTED"

\* A variant that gives up one attempt early.
FinalAttemptEarly(a) == a + 1 >= max_retries

\* except grpc.RpcError: the last attempt re-raises.
FinalAttempt(a) == a = max_retries

\* A variant that sleeps the same time before every retry.
BackoffConstant(a) == RetryDelay

\* time.sleep(self._retry_delay * 2**attempt)
Backoff(a) == RetryDelay * Pow2(a)

\* for attempt in range(self._max_retries+1): the next index.
NextAttempt(a) == a + 1

\* A variant that increments the first seed only.
AdjustFirstSeedOnly(rq, a) ==
    LET img == rq.image[1]
        seed == [i \in DOMAIN img.seed |-> IF i = 1 THEN img.seed[i] + 1 ELSE img.seed[i]]
        shift == /\ a > 0
                 /\ img.parameters # <<>>
                 /\ HasField(img.parameters[1].schedule)
                 /\ HasField(img.parameters[1].schedule[1].start)
        parameters ==
            IF shift
            THEN [img.parameters EXCEPT ![1].schedule[1].start[1] = Max(0, Min(ScheduleOne, @ + retry_schedule_offset))]
            ELSE img.parameters
    IN  [rq EXCEPT !.image = << [img EXCEPT !.seed = seed, !.parameters = parameters] >>]

\* A variant that shifts the schedule start on attempt 0 too.
AdjustShiftAlways(rq, a) ==
    LET img == rq.image[1]
        seed == [i \in DOMAIN img.seed |-> img.seed[i] + 1]
        shift == /\ a >= 0
                 /\ img.parameters # <<>>
                 /\ HasField(img.parameters[1].schedule)
                 /\ HasField(img.parameters[1].schedule[1].start)
        parameters ==
            IF shift
            THEN [img.parameters EXCEPT ![1].schedule[1].start[1] = Max(0, Min(ScheduleOne, @ + retry_schedule_offset))]
            ELSE img.parameters
    IN  [rq EXCEPT !.image = << [img EXCEPT !.seed = seed, !.parameters = parameters] >>]

\* Context._adjust_request_for_retry, on a Request that has image parameters.
_adjust_request_for_retry(rq, a) ==
    LET img == rq.image[1]
        seed == [i \in DOMAIN img.seed |-> img.seed[i] + 1]
        shift == /\ a > 0
                 /\ img.parameters # <<>>
                 /\ HasField(img.parameters[1].schedule)
                 /\ HasField(img.parameters[1].schedule[1].start)
        parameters ==
            IF shift
            THEN [img.parameters EXCEPT ![1].schedule[1].start[1] = Max(0, Min(ScheduleOne, @ + retry_schedule_offset))]
            ELSE img.parameters
    IN  [rq EXCEPT !.image = << [img EXCEPT !.seed = seed, !.parameters = parameters] >>]

\* A variant without the final else: a Request that has no image parameters
\* is resubmitted as it is.
ObfuscationHandlerNoElse(rq, a) ==
    IF rq.class = "Request" /\ HasField(rq.image)
    THEN [retry |-> TRUE, request |-> _adjust_request_for_retry(rq, a)]
    ELSE IF rq.class = "ChainRequest"
    THEN [retry |-> TRUE,
          request |-> [rq EXCEPT !.stage =
              [i \in DOMAIN rq.stage |->
                  IF HasField(rq.stage[i].request.image)
                  THEN [rq.stage[i] EXCEPT !.request = _adjust_request_for_retry(@, a)]
                  ELSE rq.stage[i]]]]
    ELSE [retry |-> TRUE, request |-> rq]

\* A variant that adjusts the first stage of a chain only.
ObfuscationHandlerFirstStage(rq, a) ==
    IF rq.class = "Request" /\ HasField(rq.image)
    THEN [retry |-> TRUE, request |-> _adjust_request_for_retry(rq, a)]
    ELSE IF rq.class = "ChainRequest"
    THEN [retry |-> TRUE,
          request |-> [rq EXCEPT !.stage =
              [i \in DOMAIN rq.stage |->
                  IF i = 1 /\ HasField(rq.stage[i].request.image)
                  THEN [rq.stage[i] EXCEPT !.request = _adjust_request_for_retry(@, a)]
                  ELSE rq.stage[i]]]]
    ELSE [retry |-> FALSE, request |-> rq]

\* except ClassifierException, after the re-raise test: a Request with image
\* parameters is adjusted; every stage of a ChainRequest that has image
\* parameters is adjusted; anything else re-raises.
ObfuscationHandler(rq, a) ==
    IF rq.class = "Request" /\ HasField(rq.image)
    THEN [retry |-> TRUE, request |-> _adjust_request_for_retry(rq, a)]
    ELSE IF rq.class = "ChainRequest"
    THEN [retry |-> TRUE,
          request |-> [rq EXCEPT !.stage =
              [i \in DOMAIN rq.stage |->
                  IF HasField(rq.stage[i].request.image)
                  THEN [rq.stage[i] EXCEPT !.request = _adjust_request_for_retry(@, a)]
                  ELSE rq.stage[i]]]]
    ELSE [retry |-> FALSE, request |-> rq]

\* What the remote service did at one dispatch, read off the response itself:
\* the labels of the history variable outcomes.
Observed(resp) ==
    IF resp.error # <<>>
    THEN IF resp.error[1].code = << "RESOURCE_EXHAUSTED" >> THEN "exhausted" ELSE "rpc_error"
    ELSE IF \E i \in DOMAIN Flatten(resp.stream) :
                /\ Flatten(resp.stream)[i].type = "ARTIFACT_CLASSIFICATIONS"
                /\ Flatten(resp.stream)[i].classifier.realized_action = "ACTION_OBFUSCATE"
    THEN "obfuscated"
    ELSE "ok"

(***************************************************************************)
(* Storage: values.  Strings stay strings; the identifiers uuid.uuid4()    *)
(* and the remote service mint are drawn, fresh, from IdOf(1), IdOf(2)...  *)
(***************************************************************************)
MaxIds == 2             \* identifiers minted in one behaviour

None == "None"          \* Python's None

\* "not x" for an identifier argument.
Falsy(x) == x = None \/ x = ""

IdOf(n) == "id" \o ToString(n)

Ids == { IdOf(n) : n \in 1..MaxIds }

\* The text artifact of a remote PUT: the identifier, bare or after a path.
TextForms == { "bare", "path" }

RemoteText(form, id) == IF form = "bare" THEN id ELSE "org/assets/" \o id

\* str.rsplit('/', 1), on the texts of the model.
rsplit(text) ==
    IF \E i \in Ids : text = "org/assets/" \o i
    THEN << "org/assets", CHOOSE i \in Ids : text = "org/assets/" \o i >>
    ELSE << text >>

\* A variant that takes the primary's text as it is.
AssetIdWholeText(text) == text

\* rsplit_res[1] if len(rsplit_res) > 1 else rsplit_res[0]
AssetIdOf(text) == IF Len(rsplit(text)) > 1 THEN rsplit(text)[2] ELSE rsplit(text)[1]

\* dict[k] = v
Put(d, k, v) == [ x \in DOMAIN d \cup {k} |-> IF x = k THEN v ELSE d[x] ]

\* dict.pop(k, None), the dict that is left.
Pop(d, k) == [ x \in DOMAIN d \ {k} |-> d[x] ]

(***************************************************************************)
(* Storage backends.                                                       *)
(***************************************************************************)
\* AssetServiceBackend.__init__: primary_fs keeps StorageBackend's default.
AssetServiceBackend(primary) ==
    [ class |-> "AssetServiceBackend", primary |-> primary, primary_fs |-> FALSE ]

LocalFileBackend(primary, primary_fs) ==
    [ class |-> "LocalFileBackend", primary |-> primary, primary_fs |-> primary_fs ]

\* A variant that registers the mirror before the primary.
RegisteredBackendsMirrorFirst == << LocalFileBackend(FALSE, TRUE), AssetServiceBackend(TRUE) >>

\* The list Project.init_backends registers.
RegisteredBackends == << AssetServiceBackend(TRUE), LocalFileBackend(FALSE, TRUE) >>

\* A Project object: project.Project with id, title and file.id.
Project(id, title, file_id) == [ id |-> id, title |-> title, file_id |-> file_id ]

\* What the environment does to one backend call: the remote call or the
\* file operation fails, or it goes through (and the remote service answers
\* a PUT with a text of the given form).
Envs ==
    { [fail |-> TRUE, form |-> "bare"] } \cup { [fail |-> FALSE, form |-> f] : f \in TextForms }

\* The same for a call that answers with no text of a remote PUT: a read, a
\* delete, any call of the local backend.
PlainEnvs == { e \in Envs : e.form = "bare" }

\* The video paths callers pass, and os.path.isfile of them.
VideoPaths == { "clip.mp4", "clip.avi", "missing.mp4" }

isfile(path) == path \in { "clip.mp4", "clip.avi" }

EndsWithMp4(path) == path \in { "clip.mp4", "missing.mp4" }

\* The outcome of a backend method: the stores after it, what it returned,
\* what it raised.
Returns(st, result) == [ st |-> st, result |-> result, raised |-> None ]

Raises(st, exception) == [ st |-> st, result |-> None, raised |-> exception ]

\* LocalFileBackend.get_path_for_asset, below _projects_root.
get_path_for_asset(project_id, filename) == << project_id, filename >>

\* os.path.isdir of a project directory: a directory exists from the first
\* file written below it until shutil.rmtree.
isdir(fs, project_id) == \E p \in DOMAIN fs : p[1] = project_id

(***************************************************************************)
(* AssetServiceBackend: every method is one remote call.  st is the record *)
(* of the stores, [remote, files, minted].                                 *)
(***************************************************************************)
Asset(project_id, id, mime) == [ project |-> project_id, id |-> id, mime |-> mime ]

\* The remote service assigns the id; proj_id_to_use is not sent.
AssetServiceBackend_create_project(st, title, proj_id_to_use, env) ==
    IF env.fail THEN Raises(st, "RpcError")
    ELSE LET id == IdOf(st.minted + 1)
         IN  Returns([st EXCEPT !.remote.projects = Put(@, id, [id |-> id, title |-> title, file |-> [id |-> ""]]),
                                !.minted = @ + 1],
                     Project(id, title, ""))

AssetServiceBackend_get_project(st, id, env) ==
    IF env.fail \/ id \notin DOMAIN st.remote.projects THEN Raises(st, "RpcError")
    ELSE Returns(st, Project(id, st.remote.projects[id].title, st.remote.projects[id].file.id))

AssetServiceBackend_delete_project(st, id, env) ==
    IF env.fail \/ id \notin DOMAIN st.remote.projects THEN Raises(st, "RpcError")
    ELSE Returns([st EXCEPT !.remote.projects = Pop(@, id),
                            !.remote.assets = { a \in @ : a.project # id }],
                 None)

\* The PUT methods: the text artifact of the answer names the new asset.
AssetServiceBackend_put(st, proj, mime, env) ==
    IF env.fail THEN Raises(st, "RpcError")
    ELSE LET id == IdOf(st.minted + 1)
         IN  Returns([st EXCEPT !.remote.assets = @ \cup { Asset(proj.id, id, mime) },
                                !.minted = @ + 1],
                     RemoteText(env.form, id))

AssetServiceBackend_put_project_settings(st, proj, data, env) ==
    AssetServiceBackend_put(st, proj, "application/json", env)

AssetServiceBackend_put_image_asset(st, proj, image, asset_id, env) ==
    AssetServiceBackend_put(st, proj, "image/png", env)

\* A variant that sends the file without looking at the path.
AssetServiceBackend_put_video_asset_unchecked(st, proj, video_path, asset_id, env) ==
    AssetServiceBackend_put(st, proj, "video/mp4", env)

AssetServiceBackend_put_video_asset(st, proj, video_path, asset_id, env) ==
    IF ~isfile(video_path) \/ ~EndsWithMp4(video_path) THEN Raises(st, "ValueError")
    ELSE AssetServiceBackend_put(st, proj, "video/mp4", env)

\* The GET methods: the artifact of the asked kind, or "Failed to load".
AssetServiceBackend_get(st, proj, asset_id, mime, env) ==
    IF env.fail THEN Raises(st, "RpcError")
    ELSE IF Asset(proj.id, asset_id, mime) \in st.remote.assets THEN Returns(st, Asset(proj.id, asset_id, mime))
    ELSE Raises(st, "Exception")

AssetServiceBackend_get_project_settings(st, proj, asset_id, env) ==
    AssetServiceBackend_get(st, proj, IF Falsy(asset_id) THEN proj.file_id ELSE asset_id, "application/json", env)

AssetServiceBackend_get_image_asset(st, proj, asset_id, env) ==
    AssetServiceBackend_get(st, proj, asset_id, "image/png", env)

AssetServiceBackend_get_video_asset(st, proj, asset_id, env) ==
    AssetServiceBackend_get(st, proj, asset_id, "video/mp4", env)

(***************************************************************************)
(* LocalFileBackend: self is the backend record (its primary flag).        *)
(***************************************************************************)
\* A variant that always takes a fresh uuid for the project id.
LocalFileBackend_create_project_own_id(st, title, proj_id_to_use, env) ==
    LET proj_id == IdOf(st.minted + 1)
        proj == [id |-> proj_id, title |-> title, file |-> [id |-> proj_id]]
    IN  IF env.fail THEN Raises(st, "OSError")
        ELSE Returns([st EXCEPT !.files = Put(@, << proj_id, proj_id >>, proj), !.minted = @ + 1],
                     Project(proj_id, title, proj_id))

LocalFileBackend_create_project(st, title, proj_id_to_use, env) ==
    LET minting == Falsy(proj_id_to_use)
        proj_id == IF minting THEN IdOf(st.minted + 1) ELSE proj_id_to_use
        proj == [id |-> proj_id, title |-> title, file |-> [id |-> proj_id]]
    IN  IF env.fail THEN Raises(st, "OSError")
        ELSE Returns([st EXCEPT !.files = Put(@, << proj_id, proj_id >>, proj),
                                !.minted = IF minting THEN @ + 1 ELSE @],
                     Project(proj_id, title, proj_id))

LocalFileBackend_get_project(st, id, env) ==
    IF << id, id >> \notin DOMAIN st.files THEN Raises(st, "FileNotFoundError")
    ELSE Returns(st, Project(st.files[<< id, id >>].id, st.files[<< id, id >>].title, st.files[<< id, id >>].file.id))

\* A variant that removes the project record file only, not the tree.
LocalFileBackend_delete_project_record_only(st, id, env) ==
    IF Falsy(id) THEN Returns(st, None)
    ELSE IF ~isdir(st.files, id) THEN Raises(st, "FileNotFoundError")
    ELSE IF env.fail THEN Raises(st, "OSError")
    ELSE Returns([st EXCEPT !.files = [ p \in { q \in DOMAIN @ : q # << id, id >> } |-> @[p] ]], None)

\* A variant without the test of the id: with an empty id the path joined
\* is the projects root, and the whole tree goes.
LocalFileBackend_delete_project_unguarded(st, id, env) ==
    IF Falsy(id) THEN Returns([st EXCEPT !.files = <<>>], None)
    ELSE IF ~isdir(st.files, id) THEN Raises(st, "FileNotFoundError")
    ELSE IF env.fail THEN Raises(st, "OSError")
    ELSE Returns([st EXCEPT !.files = [ p \in { q \in DOMAIN @ : q[1] # id } |-> @[p] ]], None)

LocalFileBackend_delete_project(st, id, env) ==
    IF Falsy(id) THEN Returns(st, None)
    ELSE IF ~isdir(st.files, id) THEN Raises(st, "FileNotFoundError")
    ELSE IF env.fail THEN Raises(st, "OSError")
    ELSE Returns([st EXCEPT !.files = [ p \in { q \in DOMAIN @ : q[1] # id } |-> @[p] ]], None)

LocalFileBackend_get_project_settings(st, proj, asset_id, env) ==
    LET input_path == get_path_for_asset(proj.id, "project_settings.json")
    IN  IF input_path \notin DOMAIN st.files THEN Raises(st, "FileNotFoundError")
        ELSE Returns(st, st.files[input_path])

LocalFileBackend_put_project_settings(st, proj, data, env) ==
    LET filename == "project_settings.json"
        output_path == get_path_for_asset(proj.id, filename)
    IN  IF env.fail THEN Raises(st, "OSError")
        ELSE Returns([st EXCEPT !.files = Put(@, output_path, [json |-> data])], filename)

LocalFileBackend_get_image_asset(st, proj, asset_id, env) ==
    LET input_path == get_path_for_asset(proj.id, asset_id \o ".png")
    IN  IF input_path \notin DOMAIN st.files THEN Raises(st, "FileNotFoundError")
        ELSE Returns(st, st.files[input_path])

\* A variant that mints an id whether or not the backend is primary.
LocalFileBackend_put_image_asset_mints(self, st, proj, image, asset_id, env) ==
    LET minting == asset_id = None
        filename == IF minting THEN IdOf(st.minted + 1) ELSE asset_id
        output_path == get_path_for_asset(proj.id, filename)
    IN  IF env.fail THEN Raises(st, "OSError")
        ELSE Returns([st EXCEPT !.files = Put(@, << output_path[1], output_path[2] \o ".png" >>, [png |-> image]),
                                !.minted = IF minting THEN @ + 1 ELSE @],
                     filename)

LocalFileBackend_put_image_asset(self, st, proj, image, asset_id, env) ==
    LET minting == asset_id = None
        filename == IF minting THEN IdOf(st.minted + 1) ELSE asset_id
        output_path == get_path_for_asset(proj.id, filename)
    IN  IF minting /\ ~self.primary THEN Raises(st, "ValueError")
        ELSE IF env.fail THEN Raises(st, "OSError")
        ELSE Returns([st EXCEPT !.files = Put(@, << output_path[1], output_path[2] \o ".png" >>, [png |-> image]),
                                !.minted = IF minting THEN @ + 1 ELSE @],
                     filename)

LocalFileBackend_get_video_asset(st, proj, asset_id, env) ==
    LET input_path == get_path_for_asset(proj.id, asset_id)
    IN  IF input_path \notin DOMAIN st.files THEN Raises(st, "FileNotFoundError")
        ELSE Returns(st, st.files[input_path])

LocalFileBackend_put_video_asset(self, st, proj, video_path, asset_id, env) ==
    LET minting == asset_id = None
        filename == IF minting THEN IdOf(st.minted + 1) ELSE asset_id
        output_path == get_path_for_asset(proj.id, filename)
    IN  IF ~isfile(video_path) \/ ~EndsWithMp4(video_path) THEN Raises(st, "ValueError")
        ELSE IF minting /\ ~self.primary THEN Raises(st, "ValueError")
        ELSE IF env.fail THEN Raises(st, "OSError")
        ELSE Returns([st EXCEPT !.files = Put(@, output_path, [mp4 |-> video_path]),
                                !.minted = IF minting THEN @ + 1 ELSE @],
                     filename)

(***************************************************************************)
(* The metadata index.                                                     *)
(***************************************************************************)
\* json.dump of the index: a key that is None is written as "null".
json_dump(d) ==
    LET Key(k) == IF k = None THEN "null" ELSE k
    IN  [ p \in DOMAIN d |-> [ j \in { Key(k) : k \in DOMAIN d[p] } |-> d[p][CHOOSE k \in DOMAIN d[p] : Key(k) = j] ] ]

json_load(doc) == doc

\* Project.save_metadata_index: the whole index replaces the file.
save_metadata_index(index) == << json_dump(index) >>

\* Project.load_metadata_index: the document, or {} when there is no file.
load_metadata_index(file) == IF file # <<>> THEN json_load(file[1]) ELSE <<>>

\* A variant that keeps the role key inside the asset's record.
add_asset_metadata_role_in_record(index, project_id, asset_id, mime_type, filename, project_key) ==
    LET with_project == IF project_id \notin DOMAIN index THEN Put(index, project_id, <<>>) ELSE index
        entry == IF filename # None
                 THEN [mime_type |-> mime_type, filename |-> filename]
                 ELSE [mime_type |-> mime_type]
    IN  [with_project EXCEPT ![project_id] =
            Put(@, asset_id, IF project_key # None THEN Put(entry, "role", project_key) ELSE entry)]

\* A variant that starts the project's sub-mapping afresh on every call.
add_asset_metadata_fresh_project(index, project_id, asset_id, mime_type, filename, project_key) ==
    LET with_project == Put(index, project_id, <<>>)
        entry == IF filename # None
                 THEN [mime_type |-> mime_type, filename |-> filename]
                 ELSE [mime_type |-> mime_type]
        with_asset == [with_project EXCEPT ![project_id] = Put(@, asset_id, entry)]
    IN  IF project_key # None
        THEN [with_asset EXCEPT ![project_id] = Put(@, project_key, asset_id)]
        ELSE with_asset

\* A variant that sets the role key only while the project has none.
add_asset_metadata_first_role(index, project_id, asset_id, mime_type, filename, project_key) ==
    LET with_project == IF project_id \notin DOMAIN index THEN Put(index, project_id, <<>>) ELSE index
        entry == IF filename # None
                 THEN [mime_type |-> mime_type, filename |-> filename]
                 ELSE [mime_type |-> mime_type]
        with_asset == [with_project EXCEPT ![project_id] = Put(@, asset_id, entry)]
    IN  IF project_key # None /\ project_key \notin DOMAIN with_project[project_id]
        THEN [with_asset EXCEPT ![project_id] = Put(@, project_key, asset_id)]
        ELSE with_asset

\* Project.add_asset_metadata, up to its save: the index after the call.
add_asset_metadata(index, project_id, asset_id, mime_type, filename, project_key) ==
    LET with_project == IF project_id \notin DOMAIN index THEN Put(index, project_id, <<>>) ELSE index
        entry == IF filename # None
                 THEN [mime_type |-> mime_type, filename |-> filename]
                 ELSE [mime_type |-> mime_type]
        with_asset == [with_project EXCEPT ![project_id] = Put(@, asset_id, entry)]
    IN  IF project_key # None
        THEN [with_asset EXCEPT ![project_id] = Put(@, project_key, asset_id)]
        ELSE with_asset

\* Project.delete_project_metadata
delete_project_metadata(index, project_id) == Pop(index, project_id)

(***************************************************************************)
(* Project: the operations fan out over Project._backends.                 *)
(***************************************************************************)
Stores == [ remote |-> remote, files |-> files, minted |-> minted ]

\* One backend call as the history keeps it (op: the last operation, its
\* backend calls in order, and the index as it stood before it).
Call(i, method, asset_id, r) ==
    [ backend |-> i, method |-> method, asset_id |-> asset_id, result |-> r.result, raised |-> r.raised ]

\* backend.<method>(...) of the three fan-out writes of assets and settings.
BackendPut(method, b, st, self, arg, asset_id, env) ==
    IF method = "put_project_settings"
    THEN IF b.class = "AssetServiceBackend"
         THEN AssetServiceBackend_put_project_settings(st, self, arg, env)
         ELSE LocalFileBackend_put_project_settings(st, self, arg, env)
    ELSE IF method = "put_image_asset"
    THEN IF b.class = "AssetServiceBackend"
         THEN AssetServiceBackend_put_image_asset(st, self, arg, asset_id, env)
         ELSE LocalFileBackend_put_image_asset(b, st, self, arg, asset_id, env)
    ELSE IF b.class = "AssetServiceBackend"
         THEN AssetServiceBackend_put_video_asset(st, self, arg, asset_id, env)
         ELSE LocalFileBackend_put_video_asset(b, st, self, arg, asset_id, env)

\* A variant that leaves asset_id = asset_id out of the call.
PassedAssetIdDefault(method, asset_id) == None

\* The asset id a backend is called with: put_project_settings takes none.
PassedAssetId(method, asset_id) == IF method = "put_project_settings" THEN None ELSE asset_id

\* A variant that takes the filename from the primary backend's answer.
RECURSIVE FanOutPutFilenameOfPrimary(_, _, _, _, _, _)
FanOutPutFilenameOfPrimary(method, self, arg, env, i, acc) ==
    IF i > Len(backends) \/ acc.raised # None THEN acc
    ELSE LET b == backends[i]
             passed == PassedAssetId(method, acc.asset_id)
             r == BackendPut(method, b, acc.st, self, arg, passed, env[i])
             calls == Append(acc.calls, Call(i, method, passed, r))
         IN  IF r.raised # None
             THEN [acc EXCEPT !.st = r.st, !.calls = calls, !.raised = r.raised]
             ELSE FanOutPutFilenameOfPrimary(method, self, arg, env, i + 1,
                      [ st       |-> r.st,
                        asset_id |-> IF b.primary THEN AssetIdOf(r.result) ELSE acc.asset_id,
                        filename |-> IF b.primary THEN r.result ELSE acc.filename,
                        results  |-> IF b.primary THEN Append(acc.results, AssetIdOf(r.result)) ELSE acc.results,
                        calls    |-> calls,
                        raised   |-> None ])

\* The loop of save_settings, put_image_asset and put_video_asset from
\* backend i on; acc holds the locals (asset_id, filename, results).
RECURSIVE FanOutPut(_, _, _, _, _, _)
FanOutPut(method, self, arg, env, i, acc) ==
    IF i > Len(backends) \/ acc.raised # None THEN acc
    ELSE LET b == backends[i]
             passed == PassedAssetId(method, acc.asset_id)
             r == BackendPut(method, b, acc.st, self, arg, passed, env[i])
             calls == Append(acc.calls, Call(i, method, passed, r))
         IN  IF r.raised # None
             THEN [acc EXCEPT !.st = r.st, !.calls = calls, !.raised = r.raised]
             ELSE FanOutPut(method, self, arg, env, i + 1,
                      [ st       |-> r.st,
                        asset_id |-> IF b.primary THEN AssetIdOf(r.result) ELSE acc.asset_id,
                        filename |-> IF b.primary_fs THEN r.result ELSE acc.filename,
                        results  |-> IF b.primary THEN Append(acc.results, AssetIdOf(r.result)) ELSE acc.results,
                        calls    |-> calls,
                        raised   |-> None ])

PutLocals == [ st |-> Stores, asset_id |-> None, filename |-> None, results |-> <<>>, calls |-> <<>>, raised |-> None ]

MimeOf(method) ==
    IF method = "put_project_settings" THEN "application/json"
    ELSE IF method = "put_image_asset" THEN "image/png"
    ELSE "video/mp4"

\* save_settings, put_image_asset, put_video_asset: the whole method.
ProjectPut(name, method, self, arg, env) ==
    LET r == FanOutPut(method, self, arg, env, 1, PutLocals)
        index == add_asset_metadata(metadata_index, self.id, r.asset_id, MimeOf(method), r.filename,
                                    IF method = "put_project_settings" THEN "project_file_id" ELSE None)
    IN  /\ r.st.minted <= MaxIds
        /\ remote' = r.st.remote
        /\ files' = r.st.files
        /\ minted' = r.st.minted
        /\ IF r.raised = None
           THEN /\ metadata_index' = index
                /\ index_file' = save_metadata_index(index)
           ELSE UNCHANGED << metadata_index, index_file >>
        /\ op' = [ index_before |-> metadata_index, name |-> name, project |-> self.id, calls |-> r.calls, raised |-> r.raised,
                   returned |-> IF r.raised # None THEN <<>>
                                ELSE IF method = "put_project_settings" THEN << r.asset_id >> ELSE << r.results >> ]
        /\ UNCHANGED << backends, handles, run_vars, chain_vars, pipe_vars, decoder_vars, process_vars >>

\* One environment per registered backend, for the fan-out writes.
BackendEnvs ==
    { env \in [ 1..Len(backends) -> Envs ] :
        \A i \in 1..Len(backends) : backends[i].class = "LocalFileBackend" => env[i] \in PlainEnvs }

PlainBackendEnvs == [ 1..Len(backends) -> PlainEnvs ]

Settings == { "cfg" }

Project_save_settings ==
    \E self \in handles, data \in Settings, env \in BackendEnvs :
        ProjectPut("save_settings", "put_project_settings", self, data, env)

Project_put_image_asset ==
    \E self \in handles, env \in BackendEnvs :
        ProjectPut("put_image_asset", "put_image_asset", self, "image", env)

Project_put_video_asset ==
    \E self \in handles, video_path \in VideoPaths, env \in BackendEnvs :
        ProjectPut("put_video_asset", "put_video_asset", self, video_path, env)

Titles == { "title" }

\* backend.create_project(context, title, access, status, asset_id)
BackendCreate(b, st, title, proj_id_to_use, env) ==
    IF b.class = "AssetServiceBackend"
    THEN AssetServiceBackend_create_project(st, title, proj_id_to_use, env)
    ELSE LocalFileBackend_create_project(st, title, proj_id_to_use, env)

\* The loop of Project.create from backend i on; acc holds the locals
\* (asset_id, proj, filename).
RECURSIVE FanOutCreate(_, _, _, _)
FanOutCreate(title, env, i, acc) ==
    IF i > Len(backends) \/ acc.raised # None THEN acc
    ELSE LET b == backends[i]
             r == BackendCreate(b, acc.st, title, acc.asset_id, env[i])
             calls == Append(acc.calls, Call(i, "create_project", acc.asset_id, r))
         IN  IF r.raised # None
             THEN [acc EXCEPT !.st = r.st, !.calls = calls, !.raised = r.raised]
             ELSE FanOutCreate(title, env, i + 1,
                      [ st       |-> r.st,
                        asset_id |-> IF b.primary THEN r.result.id ELSE acc.asset_id,
                        proj     |-> << r.result >>,
                        filename |-> IF b.primary_fs THEN << r.result.id >> ELSE acc.filename,
                        calls    |-> calls,
                        raised   |-> None ])

CreateLocals == [ st |-> Stores, asset_id |-> None, proj |-> <<>>, filename |-> <<>>, calls |-> <<>>, raised |-> None ]

\* Project.create: the whole method.  With no backend (proj unbound) or no
\* primary_fs backend (filename unbound) the call of add_asset_metadata
\* raises UnboundLocalError.
Project_create ==
    \E title \in Titles, env \in BackendEnvs :
        LET r == FanOutCreate(title, env, 1, CreateLocals)
            unbound == r.raised = None /\ (r.proj = <<>> \/ r.filename = <<>>)
            done == r.raised = None /\ ~unbound
            index == add_asset_metadata(metadata_index, r.proj[1].id, r.asset_id, "application/json",
                                        r.filename[1], "project_file_id")
        IN  /\ r.st.minted <= MaxIds
            /\ remote' = r.st.remote
            /\ files' = r.st.files
            /\ minted' = r.st.minted
            /\ IF done
               THEN /\ metadata_index' = index
                    /\ index_file' = save_metadata_index(index)
                    /\ handles' = handles \cup { r.proj[1] }
               ELSE UNCHANGED << metadata_index, index_file, handles >>
            /\ op' = [ index_before |-> metadata_index, name |-> "create", project |-> IF done THEN r.proj[1].id ELSE None, calls |-> r.calls,
                       raised |-> IF unbound THEN "UnboundLocalError" ELSE r.raised,
                       returned |-> IF done THEN << r.proj[1] >> ELSE <<>> ]
            /\ UNCHANGED << backends, run_vars, chain_vars, pipe_vars, decoder_vars, process_vars >>

\* backend.delete_project(self._context, self.id)
BackendDelete(b, st, id, env) ==
    IF b.class = "AssetServiceBackend"
    THEN AssetServiceBackend_delete_project(st, id, env)
    ELSE LocalFileBackend_delete_project(st, id, env)

\* A variant that asks every backend and raises the first failure afterwards.
RECURSIVE FanOutDeleteEveryBackend(_, _, _, _)
FanOutDeleteEveryBackend(self, env, i, acc) ==
    IF i > Len(backends) THEN acc
    ELSE LET r == BackendDelete(backends[i], acc.st, self.id, env[i])
         IN  FanOutDeleteEveryBackend(self, env, i + 1,
                 [ st |-> r.st,
                   calls |-> Append(acc.calls, Call(i, "delete_project", self.id, r)),
                   raised |-> IF acc.raised # None THEN acc.raised ELSE r.raised ])

\* The loop of Project.delete from backend i on.
RECURSIVE FanOutDelete(_, _, _, _)
FanOutDelete(self, env, i, acc) ==
    IF i > Len(backends) \/ acc.raised # None THEN acc
    ELSE LET r == BackendDelete(backends[i], acc.st, self.id, env[i])
             calls == Append(acc.calls, Call(i, "delete_project", self.id, r))
         IN  IF r.raised # None
             THEN [acc EXCEPT !.st = r.st, !.calls = calls, !.raised = r.raised]
             ELSE FanOutDelete(self, env, i + 1, [ st |-> r.st, calls |-> calls, raised |-> None ])

\* Project.delete: the whole method.  delete_project_metadata pops the
\* project from the index in memory and does not save the index.  The caller
\* lets go of a Project it has deleted.
Project_delete ==
    \E self \in handles, env \in PlainBackendEnvs :
        LET r == FanOutDelete(self, env, 1, [ st |-> Stores, calls |-> <<>>, raised |-> None ])
        IN  /\ remote' = r.st.remote
            /\ files' = r.st.files
            /\ IF r.raised = None
               THEN metadata_index' = delete_project_metadata(metadata_index, self.id)
               ELSE UNCHANGED metadata_index
            /\ op' = [ index_before |-> metadata_index, name |-> "delete", project |-> self.id, calls |-> r.calls, raised |-> r.raised,
                       returned |-> IF r.raised = None THEN << None >> ELSE <<>> ]
            /\ handles' = IF r.raised = None THEN handles \ { self } ELSE handles
            /\ UNCHANGED << backends, index_file, minted, run_vars, chain_vars, pipe_vars, decoder_vars, process_vars >>

\* StorageBackend.get_image_asset and get_video_asset are not abstract and
\* their body is "pass": a backend class that does not override them returns
\* None from them.
StorageBackend_get_image_asset(st, proj, asset_id, env) == Returns(st, None)

StorageBackend_get_video_asset(st, proj, asset_id, env) == Returns(st, None)

\* A backend of a class that implements the abstract methods of
\* StorageBackend as LocalFileBackend does and inherits the two optional
\* reads.
WriteOnlyBackend(primary, primary_fs) ==
    [ class |-> "WriteOnlyBackend", primary |-> primary, primary_fs |-> primary_fs ]

\* backend.<method>(self, asset_id, ...) of the three reads.
BackendGet(method, b, st, self, asset_id, env) ==
    IF method = "get_project_settings"
    THEN IF b.class = "AssetServiceBackend"
         THEN AssetServiceBackend_get_project_settings(st, self, asset_id, env)
         ELSE LocalFileBackend_get_project_settings(st, self, asset_id, env)
    ELSE IF method = "get_image_asset"
    THEN IF b.class = "AssetServiceBackend"
         THEN AssetServiceBackend_get_image_asset(st, self, asset_id, env)
         ELSE IF b.class = "WriteOnlyBackend"
         THEN StorageBackend_get_image_asset(st, self, asset_id, env)
         ELSE LocalFileBackend_get_image_asset(st, self, asset_id, env)
    ELSE IF b.class = "AssetServiceBackend"
         THEN AssetServiceBackend_get_video_asset(st, self, asset_id, env)
         ELSE IF b.class = "WriteOnlyBackend"
         THEN StorageBackend_get_video_asset(st, self, asset_id, env)
         ELSE LocalFileBackend_get_video_asset(st, self, asset_id, env)

\* A variant that falls back on the file id of the Project object.
ProjectFileIdOrOwn(self) ==
    IF self.id \in DOMAIN metadata_index /\ "project_file_id" \in DOMAIN metadata_index[self.id]
    THEN << metadata_index[self.id]["project_file_id"] >>
    ELSE << self.file_id >>

\* self._metadata_index[self.id]["project_file_id"]: << the id >>, or <<>>
\* where the lookup raises KeyError.
ProjectFileId(self) ==
    IF self.id \in DOMAIN metadata_index /\ "project_file_id" \in DOMAIN metadata_index[self.id]
    THEN << metadata_index[self.id]["project_file_id"] >>
    ELSE <<>>

\* A variant without the test of the primary flag: the first registered
\* backend is asked.
PrimaryReadFirstRegistered(method, self, asset_id, env, i) ==
    IF i > Len(backends)
    THEN [ st |-> Stores, calls |-> <<>>, raised |-> "Exception", returned |-> <<>> ]
    ELSE IF asset_id = <<>>
    THEN [ st |-> Stores, calls |-> <<>>, raised |-> "KeyError", returned |-> <<>> ]
    ELSE LET r == BackendGet(method, backends[i], Stores, self, asset_id[1], env)
         IN  [ st |-> r.st, calls |-> << Call(i, method, asset_id[1], r) >>, raised |-> r.raised,
               returned |-> IF r.raised = None THEN << r.result >> ELSE <<>> ]

\* The loop of get_settings, get_image_asset and get_video_asset from backend
\* i on: the first backend flagged primary is asked and its answer returned;
\* asset_id is << the id >>, or <<>> when evaluating the argument raises; env
\* is the environment of the one backend call.
RECURSIVE PrimaryRead(_, _, _, _, _)
PrimaryRead(method, self, asset_id, env, i) ==
    IF i > Len(backends)
    THEN [ st |-> Stores, calls |-> <<>>, raised |-> "Exception", returned |-> <<>> ]
    ELSE IF backends[i].primary
    THEN IF asset_id = <<>>
         THEN [ st |-> Stores, calls |-> <<>>, raised |-> "KeyError", returned |-> <<>> ]
         ELSE LET r == BackendGet(method, backends[i], Stores, self, asset_id[1], env)
              IN  [ st |-> r.st, calls |-> << Call(i, method, asset_id[1], r) >>, raised |-> r.raised,
                    returned |-> IF r.raised = None THEN << r.result >> ELSE <<>> ]
    ELSE PrimaryRead(method, self, asset_id, env, i + 1)

\* get_settings, get_image_asset, get_video_asset: the whole method.
ProjectGet(name, method, self, asset_id, env) ==
    LET r == PrimaryRead(method, self, asset_id, env, 1)
    IN  /\ remote' = r.st.remote
        /\ files' = r.st.files
        /\ minted' = r.st.minted
        /\ op' = [ index_before |-> metadata_index, name |-> name, project |-> self.id, calls |-> r.calls, raised |-> r.raised,
                   returned |-> r.returned ]
        /\ UNCHANGED << backends, metadata_index, index_file, handles, run_vars, chain_vars, pipe_vars, decoder_vars, process_vars >>

Project_get_settings ==
    \E self \in handles, env \in PlainEnvs :
        ProjectGet("get_settings", "get_project_settings", self, ProjectFileId(self), env)

\* The identifiers a caller can ask for: those minted so far.
KnownIds == { IdOf(n) : n \in 1..minted }

Project_get_image_asset ==
    \E self \in handles, asset_id \in KnownIds, env \in PlainEnvs :
        ProjectGet("get_image_asset", "get_image_asset", self, << asset_id >>, env)

Project_get_video_asset ==
    \E self \in handles, asset_id \in KnownIds, env \in PlainEnvs :
        ProjectGet("get_video_asset", "get_video_asset", self, << asset_id >>, env)

\* Project.init_backends: the backends are registered and the index is
\* loaded from metadata_index.json.
init_backends ==
    /\ backends' = RegisteredBackends
    /\ metadata_index' = load_metadata_index(index_file)
    /\ op' = [ index_before |-> metadata_index, name |-> "init_backends", project |-> None, calls |-> <<>>, raised |-> None, returned |-> << None >> ]
    /\ UNCHANGED << remote, files, index_file, handles, minted, run_vars, chain_vars, pipe_vars, decoder_vars, process_vars >>

NoOperation == [ index_before |-> <<>>, name |-> "init_backends", project |-> None, calls |-> <<>>, raised |-> None, returned |-> << None >> ]

\* The stores of a first run: nothing on the remote service, nothing under
\* the projects root, no metadata_index.json.
StorageStart ==
    /\ remote = [ projects |-> <<>>, assets |-> {} ]
    /\ files = <<>>
    /\ index_file = <<>>
    /\ metadata_index = load_metadata_index(<<>>)
    /\ handles = {}
    /\ minted = 0
    /\ op = NoOperation

\* The registrations a caller can build from the two backend classes.
Registrations ==
    { RegisteredBackends,
      << LocalFileBackend(FALSE, TRUE), AssetServiceBackend(TRUE) >>,
      << LocalFileBackend(TRUE, TRUE) >>,
      << AssetServiceBackend(FALSE), LocalFileBackend(TRUE, TRUE) >> }

ChainIdle == chain_in = <<>> /\ chain_rq = <<>>

PipelineIdle == pipe_in = <<>> /\ pipe_out = <<>>

DecoderIdle == stream_in = <<>> /\ decoded = <<>>

\* No process has called init_backends.
ProcessIdle ==
    /\ process_index = <<>>
    /\ process_loaded = <<>>
    /\ process_added = <<>>
    /\ process_op = << >>

\* No call of _run_request is under way.
RunAtRest ==
    /\ request = <<>>
    /\ attempt = 0
    /\ pc = "idle"
    /\ response = <<>>
    /\ results = <<>>
    /\ raised = [type |-> "None"]
    /\ returned = <<>>
    /\ outcomes = <<>>
    /\ sent = <<>>
    /\ sleeps = <<>>

RunIdle ==
    /\ max_retries = 0
    /\ retry_obfuscation = FALSE
    /\ retry_schedule_offset = RetryScheduleOffset
    /\ RunAtRest

StorageIdle == backends = RegisteredBackends /\ StorageStart

StorageInit == backends = RegisteredBackends /\ StorageStart /\ RunIdle /\ ChainIdle /\ PipelineIdle /\ DecoderIdle /\ ProcessIdle

RegistrationInit == backends \in Registrations /\ StorageStart /\ RunIdle /\ ChainIdle /\ PipelineIdle /\ DecoderIdle /\ ProcessIdle

StorageNext ==
    \/ init_backends
    \/ Project_create
    \/ Project_delete
    \/ Project_get_settings
    \/ Project_save_settings
    \/ Project_get_image_asset
    \/ Project_put_image_asset
    \/ Project_get_video_asset
    \/ Project_put_video_asset

StorageSpec == StorageInit /\ [][StorageNext]_vars

\* backend.update_project(self._context, self, title, file_id, file_uri): the
\* backends define update_project(context, proj, title, file_id, file_uri)
\* without self and not as a staticmethod, so the call on an instance binds
\* the backend to context and passes six arguments to five parameters:
\* TypeError, before the body is entered.
BackendUpdate(b, st, self, title, file_id) == Raises(st, "TypeError")

\* The loop of Project.update_project from backend i on.
RECURSIVE FanOutUpdate(_, _, _, _, _)
FanOutUpdate(self, title, file_id, i, acc) ==
    IF i > Len(backends) \/ acc.raised # None THEN acc
    ELSE FanOutUpdate(self, title, file_id, i + 1,
             [ st |-> BackendUpdate(backends[i], acc.st, self, title, file_id).st,
               calls |-> Append(acc.calls, Call(i, "update_project", None, BackendUpdate(backends[i], acc.st, self, title, file_id))),
               raised |-> BackendUpdate(backends[i], acc.st, self, title, file_id).raised ])

\* The fields of the Project object after "if title: ...; if file_id: ...".
Updated(self, title, file_id) ==
    Project(self.id,
            IF Falsy(title) THEN self.title ELSE title,
            IF Falsy(file_id) THEN self.file_id ELSE file_id)

NewTitles == { "retitled" }

\* Project.update_project: the whole method.
UpdateProject(self, title, file_id, r) ==
    /\ remote' = r.st.remote
    /\ files' = r.st.files
    /\ handles' = IF r.raised = None
                  THEN (handles \ { self }) \cup { Updated(self, title, file_id) }
                  ELSE handles
    /\ op' = [ index_before |-> metadata_index, name |-> "update_project", project |-> self.id, calls |-> r.calls,
               raised |-> r.raised, returned |-> IF r.raised = None THEN << None >> ELSE <<>> ]
    /\ UNCHANGED << backends, metadata_index, index_file, minted, run_vars, chain_vars, pipe_vars, decoder_vars, process_vars >>

Project_update_project ==
    \E self \in handles, title \in NewTitles, file_id \in { None } \cup KnownIds :
        UpdateProject(self, title, file_id,
                      FanOutUpdate(self, title, file_id, 1, [ st |-> Stores, calls |-> <<>>, raised |-> None ]))

\* backend.get_project(context, id)
BackendGetProject(b, st, id, env) ==
    IF b.class = "AssetServiceBackend"
    THEN AssetServiceBackend_get_project(st, id, env)
    ELSE LocalFileBackend_get_project(st, id, env)

\* The loop of Project.get from backend i on: the first backend flagged
\* primary is asked.
RECURSIVE PrimaryGetProject(_, _, _)
PrimaryGetProject(id, env, i) ==
    IF i > Len(backends)
    THEN [ calls |-> <<>>, raised |-> "Exception", returned |-> <<>> ]
    ELSE IF backends[i].primary
    THEN [ calls |-> << Call(i, "get_project", None, BackendGetProject(backends[i], Stores, id, env)) >>,
           raised |-> BackendGetProject(backends[i], Stores, id, env).raised,
           returned |-> IF BackendGetProject(backends[i], Stores, id, env).raised = None
                        THEN << BackendGetProject(backends[i], Stores, id, env).result >>
                        ELSE <<>> ]
    ELSE PrimaryGetProject(id, env, i + 1)

\* Project.get: the whole method; the caller holds the Project it returns.
GetProject(id, r) ==
    /\ handles' = handles \cup { r.returned[k] : k \in DOMAIN r.returned }
    /\ op' = [ index_before |-> metadata_index, name |-> "get", project |-> id, calls |-> r.calls,
               raised |-> r.raised, returned |-> r.returned ]
    /\ UNCHANGED << backends, remote, files, metadata_index, index_file, minted, run_vars, chain_vars, pipe_vars, decoder_vars, process_vars >>

Project_get ==
    \E id \in KnownIds, env \in PlainEnvs : GetProject(id, PrimaryGetProject(id, env, 1))

\* The ids a caller can hand to LocalFileBackend.delete_project: None, the
\* empty string, the id of a project, an id that names none.
DeleteIds == { None, "" } \cup Ids

\* A direct call of LocalFileBackend.delete_project(context, id).
CallDeleteProject(id, r) ==
    /\ files' = r.st.files
    /\ op' = [ index_before |-> metadata_index, name |-> "LocalFileBackend.delete_project", project |-> id,
               calls |-> <<>>, raised |-> r.raised, returned |-> IF r.raised = None THEN << None >> ELSE <<>> ]
    /\ UNCHANGED << backends, remote, metadata_index, index_file, handles, minted, run_vars, chain_vars, pipe_vars, decoder_vars, process_vars >>

Call_LocalFileBackend_delete_project ==
    \E id \in DeleteIds, env \in PlainEnvs :
        CallDeleteProject(id, LocalFileBackend_delete_project(Stores, id, env))

LocalDeleteNext ==
    \/ Project_create
    \/ Project_put_image_asset
    \/ Call_LocalFileBackend_delete_project

\* Projects with files below the projects root, and direct calls of
\* LocalFileBackend.delete_project.
LocalDeleteSpec == StorageInit /\ [][LocalDeleteNext]_vars

LookupNext ==
    \/ Project_create
    \/ Project_get
    \/ Project_get_settings
    \/ Project_save_settings
    \/ Project_delete

\* Projects and their settings, Project.get included.
LookupSpec == StorageInit /\ [][LookupNext]_vars

ProjectNext == StorageNext \/ Project_update_project

\* The operations of Project, update_project included.
ProjectSpec == StorageInit /\ [][ProjectNext]_vars

RegistrationSpec == RegistrationInit /\ [][StorageNext]_vars

\* A caller registers one primary backend that inherits the optional reads
\* (Project._backends is assigned, init_backends is not called).
CapabilityInit ==
    /\ backends = << WriteOnlyBackend(TRUE, TRUE) >>
    /\ StorageStart /\ RunIdle /\ ChainIdle /\ PipelineIdle /\ DecoderIdle /\ ProcessIdle

CapabilityNext ==
    \/ Project_create
    \/ Project_delete
    \/ Project_get_settings
    \/ Project_save_settings
    \/ Project_get_image_asset
    \/ Project_put_image_asset
    \/ Project_get_video_asset
    \/ Project_put_video_asset

CapabilitySpec == CapabilityInit /\ [][CapabilityNext]_vars

(***************************************************************************)
(* Chain building: Context.transform_and_generate, Context.transform and   *)
(* Context.transform_3d up to the request they hand to _run_request, in    *)
(* chain mode (_debug_no_chains is False).                                 *)
(***************************************************************************)
MaxStages == 3          \* transform parameters in one call

TransformParams == { "color_adjust", "depth_calc", "resample" }

ParamLists == UNION { [1..n -> TransformParams] : n \in 0..MaxStages }

ChainInputs ==
    { [operation |-> "transform_and_generate", image |-> "image", params |-> ps, generate_request |-> g] :
        ps \in ParamLists,
        g \in { GenerateRequest(<< "text" >>, << 7 >>, 5), GenerateRequest(<< "text", "init_image" >>, << 3, 9 >>, 70) } }
    \cup { [operation |-> "transform", images |-> << "image" >>, params |-> ps] : ps \in ParamLists \ { <<>> } }
    \cup { [operation |-> "transform_3d", images |-> imgs, depth_calc |-> "depth_calc", transform |-> t] :
              imgs \in { << "image" >>, << "image", "image_b" >> }, t \in { "resample", "camera_pose" } }

\* Context.transform_and_generate: the generate request when params is
\* empty, the chain otherwise.
Context_transform_and_generate ==
    /\ chain_rq = <<>>
    /\ chain_in.operation = "transform_and_generate"
    /\ chain_rq' = << IF chain_in.params = <<>>
                      THEN chain_in.generate_request
                      ELSE TransformAndGenerateChain(chain_in.image, chain_in.params, chain_in.generate_request) >>
    /\ UNCHANGED << chain_in, run_vars, storage_vars, pipe_vars, decoder_vars, process_vars >>

\* Context.transform: the chain for two or more parameters, a single request
\* otherwise.
Context_transform ==
    /\ chain_rq = <<>>
    /\ chain_in.operation = "transform"
    /\ chain_rq' = << IF Len(chain_in.params) > 1
                      THEN TransformChain(chain_in.images, chain_in.params)
                      ELSE TransformRequest(chain_in.images, chain_in.params[1]) >>
    /\ UNCHANGED << chain_in, run_vars, storage_vars, pipe_vars, decoder_vars, process_vars >>

\* Context.transform_3d
Context_transform_3d ==
    /\ chain_rq = <<>>
    /\ chain_in.operation = "transform_3d"
    /\ chain_rq' = << Transform3dChain(chain_in.images, chain_in.depth_calc, chain_in.transform) >>
    /\ UNCHANGED << chain_in, run_vars, storage_vars, pipe_vars, decoder_vars, process_vars >>

ChainInit == chain_in \in ChainInputs /\ chain_rq = <<>> /\ RunIdle /\ StorageIdle /\ PipelineIdle /\ DecoderIdle /\ ProcessIdle

ChainNext == Context_transform_and_generate \/ Context_transform \/ Context_transform_3d

ChainSpec == ChainInit /\ [][ChainNext]_vars

(***************************************************************************)
(* The calls of _run_request the model starts from.                        *)
(***************************************************************************)
RequestInputs ==
    { GenerateRequest(<< "text" >>, << 3, 9 >>, 5),
      GenerateRequest(<< "text", "init_image" >>, << 7 >>, 70),
      GenerateRequest(<< "text" >>, << 7 >>, 0),
      TransformRequest(<< "image" >>, "color_adjust"),
      TransformChain(<< "image" >>, << "color_adjust", "depth_calc" >>),
      Transform3dChain(<< "image" >>, "depth_calc", "resample"),
      TransformAndGenerateChain("image", << "resample" >>, GenerateRequest(<< "text" >>, << 7 >>, 5)),
      ChainRequest("custom_chain",
          << Stage("a", GenerateRequest(<< "text" >>, << 3, 9 >>, 70), "STAGE_ACTION_PASS", << "b" >>),
             Stage("b", TransformRequest(<<>>, "resample"), "STAGE_ACTION_PASS", << "c" >>),
             Stage("c", GenerateRequest(<< "text" >>, << 7 >>, 5), "STAGE_ACTION_RETURN", <<>>) >>) }

ScheduleOffsets == { RetryScheduleOffset, 0 - 4 * RetryScheduleOffset }

NoException == [type |-> "None"]

Init ==
    /\ max_retries \in 0..MaxRetriesBound
    /\ retry_obfuscation \in BOOLEAN
    /\ retry_schedule_offset \in ScheduleOffsets
    /\ request \in RequestInputs
    /\ attempt = 0
    /\ pc = "loop"
    /\ response = <<>>
    /\ results = <<>>
    /\ raised = NoException
    /\ returned = <<>>
    /\ outcomes = <<>>
    /\ sent = <<>>
    /\ sleeps = <<>>
    /\ StorageIdle
    /\ ChainIdle
    /\ PipelineIdle
    /\ DecoderIdle /\ ProcessIdle

Config == << max_retries, retry_obfuscation, retry_schedule_offset >>

\* The try body ran to its break: the decoded mapping is returned.
AttemptReturns ==
    /\ pc = "loop"
    /\ attempt \in 0..max_retries
    /\ \E resp \in Responses :
        /\ resp.error = <<>>
        /\ Obfuscations(_process_response(resp.stream)) = <<>>
        /\ response' = resp
        /\ results' = _process_response(resp.stream)
        /\ returned' = Append(returned, results')
        /\ pc' = "returned"
        /\ outcomes' = Append(outcomes, Observed(resp))
        /\ sent' = Append(sent, request)
        /\ UNCHANGED << Config, request, attempt, raised, sleeps, storage_vars, chain_vars, pipe_vars, decoder_vars, process_vars >>

\* A variant that backs off before an obfuscation retry too.
AttemptObfuscatedSleeps ==
    /\ pc = "loop"
    /\ attempt \in 0..max_retries
    /\ \E resp \in Responses :
        /\ resp.error = <<>>
        /\ Obfuscations(_process_response(resp.stream)) # <<>>
        /\ outcomes' = Append(outcomes, Observed(resp))
        /\ sent' = Append(sent, request)
        /\ IF ClassifierTerminal(attempt) \/ ~ObfuscationHandler(request, attempt).retry
           THEN /\ raised' = [type |-> "ClassifierException",
                              classifier_result |-> Head(Obfuscations(_process_response(resp.stream)))]
                /\ response' = resp
                /\ pc' = "raised"
                /\ UNCHANGED << request, attempt, sleeps >>
           ELSE /\ request' = ObfuscationHandler(request, attempt).request
                /\ attempt' = NextAttempt(attempt)
                /\ sleeps' = Append(sleeps, Backoff(attempt))
                /\ UNCHANGED << response, pc, raised >>
        /\ UNCHANGED << Config, results, returned, storage_vars, chain_vars, pipe_vars, decoder_vars, process_vars >>

\* The try body raised ClassifierException: the handler re-raises, or adjusts
\* the request and lets the loop go on.
AttemptObfuscated ==
    /\ pc = "loop"
    /\ attempt \in 0..max_retries
    /\ \E resp \in Responses :
        /\ resp.error = <<>>
        /\ Obfuscations(_process_response(resp.stream)) # <<>>
        /\ outcomes' = Append(outcomes, Observed(resp))
        /\ sent' = Append(sent, request)
        /\ IF ClassifierTerminal(attempt) \/ ~ObfuscationHandler(request, attempt).retry
           THEN /\ raised' = [type |-> "ClassifierException",
                              classifier_result |-> Head(Obfuscations(_process_response(resp.stream)))]
                /\ response' = resp
                /\ pc' = "raised"
                /\ UNCHANGED << request, attempt >>
           ELSE /\ request' = ObfuscationHandler(request, attempt).request
                /\ attempt' = NextAttempt(attempt)
                /\ UNCHANGED << response, pc, raised >>
        /\ UNCHANGED << Config, results, returned, sleeps, storage_vars, chain_vars, pipe_vars, decoder_vars, process_vars >>

\* A variant whose transport-failure retry adjusts the request as an
\* obfuscation retry does.
AttemptRpcErrorAdjusts ==
    /\ pc = "loop"
    /\ attempt \in 0..max_retries
    /\ \E resp \in Responses :
        /\ resp.error # <<>>
        /\ outcomes' = Append(outcomes, Observed(resp))
        /\ sent' = Append(sent, request)
        /\ IF IsResourceExhausted(resp.error[1])
           THEN /\ raised' = [type |-> "OutOfCreditsException", details |-> resp.error[1].details]
                /\ response' = resp
                /\ pc' = "raised"
                /\ UNCHANGED << request, attempt, sleeps >>
           ELSE IF FinalAttempt(attempt)
           THEN /\ raised' = [type |-> "RpcError", error |-> resp.error[1]]
                /\ response' = resp
                /\ pc' = "raised"
                /\ UNCHANGED << request, attempt, sleeps >>
           ELSE /\ sleeps' = Append(sleeps, Backoff(attempt))
                /\ attempt' = NextAttempt(attempt)
                /\ request' = ObfuscationHandler(request, attempt).request
                /\ UNCHANGED << response, pc, raised >>
        /\ UNCHANGED << Config, results, returned, storage_vars, chain_vars, pipe_vars, decoder_vars, process_vars >>

\* The dispatch or the reading of its stream raised grpc.RpcError.
AttemptRpcError ==
    /\ pc = "loop"
    /\ attempt \in 0..max_retries
    /\ \E resp \in Responses :
        /\ resp.error # <<>>
        /\ outcomes' = Append(outcomes, Observed(resp))
        /\ sent' = Append(sent, request)
        /\ IF IsResourceExhausted(resp.error[1])
           THEN /\ raised' = [type |-> "OutOfCreditsException", details |-> resp.error[1].details]
                /\ response' = resp
                /\ pc' = "raised"
                /\ UNCHANGED << attempt, sleeps >>
           ELSE IF FinalAttempt(attempt)
           THEN /\ raised' = [type |-> "RpcError", error |-> resp.error[1]]
                /\ response' = resp
                /\ pc' = "raised"
                /\ UNCHANGED << attempt, sleeps >>
           ELSE /\ sleeps' = Append(sleeps, Backoff(attempt))
                /\ attempt' = NextAttempt(attempt)
                /\ UNCHANGED << response, pc, raised >>
        /\ UNCHANGED << Config, request, results, returned, storage_vars, chain_vars, pipe_vars, decoder_vars, process_vars >>

Next == AttemptReturns \/ AttemptObfuscated \/ AttemptRpcError

Spec == Init /\ [][Next]_vars

(***************************************************************************)
(* Pipelines: Context.transform_and_generate and Context.transform_3d as   *)
(* whole calls, with _debug_no_chains set and not set, against one and the *)
(* same service.  The service is deterministic: env.faults[key] lists the  *)
(* transport failures the successive executions of stage key end in before *)
(* the stage works, env.obfuscated the seeds whose image the classifier    *)
(* obfuscates.  execs counts the executions of each stage so far.          *)
(***************************************************************************)
StageKeys == StageOps \cup { "generate" }

StageKey(rq) == IF HasField(rq.transform) THEN rq.transform[1] ELSE "generate"

\* What a stage that works answers with.
StageArtifacts(rq, env) ==
    LET input == rq.prompt[Len(rq.prompt)]
    IN  IF HasField(rq.transform)
        THEN IF rq.requested_type = "ARTIFACT_TENSOR"
             THEN << [type |-> "ARTIFACT_TENSOR", tensor |-> Tensor(rq.transform[1], input)] >>
             ELSE << [type |-> "ARTIFACT_IMAGE", binary |-> Warp(rq.transform[1], input)] >>
        ELSE LET img == rq.image[1]
                 start == IF HasField(img.parameters[1].schedule)
                          THEN img.parameters[1].schedule[1].start[1]
                          ELSE -1
             IN  << [type |-> "ARTIFACT_IMAGE", binary |-> Png(img.seed[1], start, input)],
                    IF img.seed[1] \in env.obfuscated THEN ClassifierObfuscateA ELSE ClassifierPass >>

\* One execution of one stage.
ExecuteStage(rq, execs, env) ==
    IF execs[StageKey(rq)] + 1 <= Len(env.faults[StageKey(rq)])
    THEN [ execs |-> [execs EXCEPT ![StageKey(rq)] = @ + 1],
           error |-> << env.faults[StageKey(rq)][execs[StageKey(rq)] + 1] >>,
           artifacts |-> <<>> ]
    ELSE [ execs |-> [execs EXCEPT ![StageKey(rq)] = @ + 1],
           error |-> <<>>,
           artifacts |-> StageArtifacts(rq, env) ]

\* The answer to a dispatch whose last stage execution was x: one message
\* with the artifacts, or the failure.
Answer(x) ==
    [ execs |-> x.execs,
      response |-> [ stream |-> IF x.error = <<>> THEN << [artifacts |-> x.artifacts] >> ELSE <<>>,
                     error |-> x.error ] ]

\* endpoint.stub.Generate(request): one stage, one response.
stub_Generate(rq, execs, env) == Answer(ExecuteStage(rq, execs, env))

\* A stage request with the tensor passed to it as a further prompt.
Spliced(rq, passed) == IF passed = <<>> THEN rq ELSE [rq EXCEPT !.prompt = Append(@, passed[1])]

\* The service's run of a chain from stage i on: a stage that passes hands
\* its tensor to the stage its transition targets; the stage that returns
\* answers the call; a stage that fails ends it.
RECURSIVE RunStages(_, _, _, _, _)
RECURSIVE AfterStage(_, _, _, _)
AfterStage(chain, on, x, env) ==
    IF x.error # <<>> \/ on.action = << "STAGE_ACTION_RETURN" >>
    THEN Answer(x)
    ELSE RunStages(chain, CHOOSE j \in DOMAIN chain.stage : chain.stage[j].id = on.target[1],
                   << x.artifacts[1].tensor >>, x.execs, env)

RunStages(chain, i, passed, execs, env) ==
    AfterStage(chain, chain.stage[i].on_status[1],
               ExecuteStage(Spliced(chain.stage[i].request, passed), execs, env), env)

\* endpoint.stub.ChainGenerate(request)
stub_ChainGenerate(rq, execs, env) == RunStages(rq, 1, <<>>, execs, env)

\* One dispatch as the history of a pipeline call keeps it: via is
\* "_run_request" or, for a dispatch made outside it, "stub".
Dispatch(rq, resp, call, a, via) ==
    [ request |-> rq, response |-> resp, call |-> call, attempt |-> a, via |-> via ]

\* The state of a pipeline call: the service's counts, the dispatches and
\* sleeps so far, the number of the _run_request call under way.
PipelineStart == [ execs |-> [ k \in StageKeys |-> 0 ], dispatches |-> <<>>, sleeps |-> <<>>, call |-> 0 ]

\* The call state after the dispatch d of rq.
Seen(c, rq, a, d, via) ==
    [c EXCEPT !.execs = d.execs, !.dispatches = Append(@, Dispatch(rq, d.response, c.call, a, via))]

\* Context._run_request from attempt a on, as one computation against the
\* service: the dispatch, the handler of grpc.RpcError, the decoding and the
\* handler of ClassifierException.
RECURSIVE _run_request(_, _, _, _)
RECURSIVE Dispatched(_, _, _, _, _)
RECURSIVE Processed(_, _, _, _, _)
Processed(rq, a, seen, res, env) ==
    IF Obfuscations(res) = <<>>
    THEN [ c |-> seen, results |-> res, raised |-> NoException ]
    ELSE IF ClassifierTerminal(a) \/ ~ObfuscationHandler(rq, a).retry
    THEN [ c |-> seen, results |-> <<>>,
           raised |-> [type |-> "ClassifierException", classifier_result |-> Head(Obfuscations(res))] ]
    ELSE _run_request(ObfuscationHandler(rq, a).request, NextAttempt(a), seen, env)

Dispatched(rq, a, c, env, d) ==
    IF d.response.error # <<>>
    THEN IF IsResourceExhausted(d.response.error[1])
         THEN [ c |-> Seen(c, rq, a, d, "_run_request"), results |-> <<>>,
                raised |-> [type |-> "OutOfCreditsException", details |-> d.response.error[1].details] ]
         ELSE IF FinalAttempt(a)
         THEN [ c |-> Seen(c, rq, a, d, "_run_request"), results |-> <<>>,
                raised |-> [type |-> "RpcError", error |-> d.response.error[1]] ]
         ELSE _run_request(rq, NextAttempt(a),
                           [Seen(c, rq, a, d, "_run_request") EXCEPT !.sleeps = Append(@, Backoff(a))], env)
    ELSE Processed(rq, a, Seen(c, rq, a, d, "_run_request"), _process_response(d.response.stream), env)

_run_request(rq, a, c, env) ==
    Dispatched(rq, a, c, env,
               IF rq.class = "Request"
               THEN stub_Generate(rq, c.execs, env)
               ELSE stub_ChainGenerate(rq, c.execs, env))

NewCall(c) == [c EXCEPT !.call = @ + 1]

\* What a pipeline call came to.
Outcome(c, exception, value) ==
    [ raised |-> exception, returned |-> value, dispatches |-> c.dispatches, sleeps |-> c.sleeps ]

\* rq.prompt.pop(); rq.prompt.append(tensor_to_prompt(prev_result))
PopAppend(rq, prev_result) ==
    IF prev_result # <<>>
    THEN [rq EXCEPT !.prompt = Append(SubSeq(@, 1, Len(@) - 1), prev_result[1])]
    ELSE rq

\* transform_and_generate, _debug_no_chains set: the loop over requests from
\* index i on; prev_result is <<>> (None) or << the tensor >>, r what the
\* _run_request of requests[i] came to.
RECURSIVE NoChainTransforms(_, _, _, _, _)
RECURSIVE AfterTransform(_, _, _, _, _)
AfterTransform(requests, i, prev_result, env, r) ==
    IF r.raised.type # "None"
    THEN [ c |-> r.c, prev_result |-> prev_result, raised |-> r.raised ]
    ELSE NoChainTransforms(requests, i + 1, << r.results["ARTIFACT_TENSOR"][1] >>, r.c, env)

NoChainTransforms(requests, i, prev_result, c, env) ==
    IF i > Len(requests) THEN [ c |-> c, prev_result |-> prev_result, raised |-> NoException ]
    ELSE AfterTransform(requests, i, prev_result, env,
                        _run_request(PopAppend(requests[i], prev_result), 0, NewCall(c), env))

\* return results[generation.ARTIFACT_IMAGE][0]
ReturnFirstImage(r) ==
    IF r.raised.type # "None"
    THEN Outcome(r.c, r.raised, <<>>)
    ELSE Outcome(r.c, NoException, << r.results["ARTIFACT_IMAGE"][1] >>)

\* The generate request of the no-chain mode, after the transforms came to t.
GenerateAfter(t, generate_request, env) ==
    IF t.raised.type # "None"
    THEN Outcome(t.c, t.raised, <<>>)
    ELSE ReturnFirstImage(_run_request([generate_request EXCEPT !.prompt = Append(@, t.prev_result[1])],
                                       0, NewCall(t.c), env))

\* Context.transform_and_generate: the whole call.
transform_and_generate(debug_no_chains, image, params, generate_request, env) ==
    IF params = <<>>
    THEN ReturnFirstImage(_run_request(generate_request, 0, NewCall(PipelineStart), env))
    ELSE IF debug_no_chains
    THEN GenerateAfter(NoChainTransforms([ i \in 1..Len(params) |->
                                             Request(TransformEngine, "ARTIFACT_TENSOR", << image >>, <<>>, << params[i] >>) ],
                                         1, <<>>, PipelineStart, env),
                       generate_request, env)
    ELSE ReturnFirstImage(_run_request(TransformAndGenerateChain(image, params, generate_request),
                                       0, NewCall(PipelineStart), env))

\* return warped_images, warp_mask
ReturnImagesAndMask(r) ==
    IF r.raised.type # "None"
    THEN Outcome(r.c, r.raised, <<>>)
    ELSE Outcome(r.c, NoException, << << r.results["ARTIFACT_IMAGE"], None >> >>)

\* transform_3d, _debug_no_chains set, after the depth request went straight
\* to the stub and was answered with d: a failure of it leaves the call as
\* the grpc.RpcError it is.
AfterDepth(rq_depth, rq_transform, d, env) ==
    IF d.response.error # <<>>
    THEN Outcome(Seen(NewCall(PipelineStart), rq_depth, 0, d, "stub"),
                 [type |-> "RpcError", error |-> d.response.error[1]], <<>>)
    ELSE ReturnImagesAndMask(
             _run_request([rq_transform EXCEPT !.prompt = Append(@, _process_response(d.response.stream)["ARTIFACT_TENSOR"][1])],
                          0, NewCall(Seen(NewCall(PipelineStart), rq_depth, 0, d, "stub")), env))

\* Context.transform_3d: the whole call.
transform_3d(debug_no_chains, images, depth_calc, transform, env) ==
    IF debug_no_chains
    THEN AfterDepth(Request(TransformEngine, "ARTIFACT_TENSOR", << Head(images) >>, <<>>, << depth_calc >>),
                    Request(TransformEngine, "ARTIFACT_NONE", images, <<>>, << transform >>),
                    stub_Generate(Request(TransformEngine, "ARTIFACT_TENSOR", << Head(images) >>, <<>>, << depth_calc >>),
                                  PipelineStart.execs, env),
                    env)
    ELSE ReturnImagesAndMask(_run_request(Transform3dChain(images, depth_calc, transform), 0, NewCall(PipelineStart), env))

\* The coded transport failures a stage can end in.
Faults == { r \in RpcErrors : HasField(r.code) }

\* The first execution of a stage fails, or none does.
FaultLists == { <<>> } \cup { << r >> : r \in Faults }

PipelineCalls ==
    { [operation |-> "transform_and_generate", image |-> "image", params |-> ps,
       generate_request |-> GenerateRequest(<< "text" >>, << 7 >>, 70)] :
          ps \in { << "color_adjust" >>, << "depth_calc", "resample" >> } }
    \cup { [operation |-> "transform_3d", images |-> << "image" >>, depth_calc |-> "depth_calc", transform |-> t] :
              t \in { "resample", "camera_pose" } }

\* The stages a call runs.
StagesOf(call) ==
    IF call.operation = "transform_and_generate"
    THEN { call.params[i] : i \in DOMAIN call.params } \cup { "generate" }
    ELSE { call.depth_calc, call.transform }

\* The services a call can meet: only its own stages can fail.
Services(call) ==
    { [ faults |-> f, obfuscated |-> o ] :
        f \in { g \in [ StageKeys -> FaultLists ] : \A k \in StageKeys \ StagesOf(call) : g[k] = <<>> },
        o \in SUBSET { 7, 8 } }

\* One call of transform_and_generate, by a Context with _debug_no_chains as
\* given.
Run_transform_and_generate ==
    \E debug_no_chains \in BOOLEAN \ DOMAIN pipe_out :
        /\ pipe_in.call.operation = "transform_and_generate"
        /\ pipe_out' = Put(pipe_out, debug_no_chains,
                           transform_and_generate(debug_no_chains, pipe_in.call.image, pipe_in.call.params,
                                                  pipe_in.call.generate_request, pipe_in.env))
        /\ UNCHANGED << pipe_in, run_vars, storage_vars, chain_vars, decoder_vars, process_vars >>

\* One call of transform_3d
Run_transform_3d ==
    \E debug_no_chains \in BOOLEAN \ DOMAIN pipe_out :
        /\ pipe_in.call.operation = "transform_3d"
        /\ pipe_out' = Put(pipe_out, debug_no_chains,
                           transform_3d(debug_no_chains, pipe_in.call.images, pipe_in.call.depth_calc,
                                        pipe_in.call.transform, pipe_in.env))
        /\ UNCHANGED << pipe_in, run_vars, storage_vars, chain_vars, decoder_vars, process_vars >>

PipelineInit ==
    /\ \E call \in PipelineCalls : \E env \in Services(call) : pipe_in = [ call |-> call, env |-> env ]
    /\ pipe_out = <<>>
    /\ max_retries \in 0..MaxRetriesBound
    /\ retry_obfuscation \in BOOLEAN
    /\ retry_schedule_offset = RetryScheduleOffset
    /\ RunAtRest
    /\ StorageIdle
    /\ ChainIdle
    /\ DecoderIdle /\ ProcessIdle

PipelineNext == Run_transform_and_generate \/ Run_transform_3d

PipelineSpec == PipelineInit /\ [][PipelineNext]_vars

(***************************************************************************)
(* Context._process_response on its own: streams over every artifact kind  *)
(* the decoder tells apart, and one it does not.                           *)
(***************************************************************************)
DecoderArtifacts ==
    { ImageArtifact,
      [type |-> "ARTIFACT_IMAGE", binary |-> "truncated"],
      [type |-> "ARTIFACT_MASK", binary |-> "png_a"],
      [type |-> "ARTIFACT_TENSOR", tensor |-> "tensor_a"],
      [type |-> "ARTIFACT_TEXT", text |-> "id1"],
      [type |-> "ARTIFACT_TEXT", text |-> "id2"],
      [type |-> "ARTIFACT_VIDEO", binary |-> "mp4_a"],
      ClassifierPass,
      [type |-> "ARTIFACT_LATENT", binary |-> "latent_a"] }

DecoderMessages == { [artifacts |-> a] : a \in SeqsUpTo(DecoderArtifacts, MaxArtifacts) }

\* The streams of at most msgs messages holding at most budget artifacts.
RECURSIVE DecoderStreamsWithin(_, _)
DecoderStreamsWithin(msgs, budget) ==
    IF msgs = 0 THEN { <<>> }
    ELSE { <<>> } \cup UNION { { << m >> \o s : s \in DecoderStreamsWithin(msgs - 1, budget - Len(m.artifacts)) } :
                                 m \in { x \in DecoderMessages : Len(x.artifacts) <= budget } }

DecoderStreams == DecoderStreamsWithin(MaxArtifacts, MaxArtifacts)

\* One call of _process_response: the stream it read and the mapping it
\* returned.
Context_process_response ==
    /\ decoded = <<>>
    /\ \E stream \in DecoderStreams :
           /\ stream_in' = << stream >>
           /\ decoded' = << _process_response(stream) >>
    /\ UNCHANGED << run_vars, storage_vars, chain_vars, pipe_vars, process_vars >>

DecoderInit == DecoderIdle /\ ProcessIdle /\ RunIdle /\ StorageIdle /\ ChainIdle /\ PipelineIdle

DecoderNext == Context_process_response

DecoderSpec == DecoderInit /\ [][DecoderNext]_vars

(***************************************************************************)
(* Vocabulary of the properties.                                           *)
(***************************************************************************)
Dispatches == Len(outcomes)

Count(label) == Cardinality({ i \in DOMAIN outcomes : outcomes[i] = label })

\* The request as it stood before dispatch i (i <= Dispatches) and as it
\* stands now (i = Dispatches + 1).
Timeline == Append(sent, request)

\* Dispatch i was followed by a retry: the loop went on after it.
Retried(i) == i < Dispatches \/ pc = "loop"

\* Obfuscation-triggered retries: obfuscated dispatches the loop went on after.
ObfuscationRetry(i) == i \in DOMAIN outcomes /\ outcomes[i] = "obfuscated" /\ Retried(i)

\* The first obfuscating classification of a stream, in stream order.
FirstObfuscation(stream) ==
    LET flat == Flatten(stream)
        hits == { i \in DOMAIN flat : /\ flat[i].type = "ARTIFACT_CLASSIFICATIONS"
                                      /\ flat[i].classifier.realized_action = "ACTION_OBFUSCATE" }
    IN  flat[CHOOSE i \in hits : \A j \in hits : i <= j].classifier

(***************************************************************************)
(* C1: when every dispatch of a call fails with a transport error other    *)
(* than RESOURCE_EXHAUSTED, the request is dispatched exactly              *)
(* max_retries + 1 times: the call is still running after fewer, and the   *)
(* (max_retries + 1)th failure ends it by raising that attempt's RpcError  *)
(* itself, not wrapped in another exception.                               *)
(***************************************************************************)
C1_RetryBound ==
    (Count("rpc_error") = Dispatches) =>
        /\ Dispatches <= max_retries + 1
        /\ Dispatches < max_retries + 1 => pc = "loop"
        /\ Dispatches = max_retries + 1 =>
              /\ pc = "raised"
              /\ raised = [type |-> "RpcError", error |-> response.error[1]]
              /\ Observed(response) = "rpc_error"

C1_Witness ==
    /\ max_retries = 2
    /\ outcomes = << "rpc_error", "rpc_error", "rpc_error" >>
    /\ pc = "raised"
    /\ raised.type = "RpcError"

(***************************************************************************)
(* C2: a transport failure with code RESOURCE_EXHAUSTED, on whichever      *)
(* attempt it comes, ends the call at once with OutOfCreditsException      *)
(* carrying the details of that very error: it is the last dispatch of the *)
(* call, and the call slept only after the retried transport failures      *)
(* before it, never after it.                                              *)
(***************************************************************************)
C2_QuotaShortCircuit ==
    \A i \in DOMAIN outcomes :
        outcomes[i] = "exhausted" =>
            /\ i = Dispatches
            /\ pc = "raised"
            /\ raised = [type |-> "OutOfCreditsException", details |-> response.error[1].details]
            /\ Observed(response) = "exhausted"
            /\ Len(sleeps) = Count("rpc_error")

C2_Witness ==
    /\ max_retries = 2
    /\ outcomes = << "rpc_error", "exhausted" >>
    /\ pc = "raised"
    /\ raised.type = "OutOfCreditsException"
    /\ raised.details = "out of credits"

(***************************************************************************)
(* C3 as stated: an obfuscated response with retry-on-obfuscation disabled *)
(* or on the final attempt (index max_retries) raises ClassifierException  *)
(* carrying an obfuscating classification of that response and nothing is  *)
(* dispatched after it; with retry disabled the request is dispatched      *)
(* exactly once and is not mutated.                                        *)
(***************************************************************************)
C3_Original ==
    (/\ Dispatches > 0
     /\ outcomes[Dispatches] = "obfuscated"
     /\ (~retry_obfuscation \/ Dispatches = max_retries + 1)) =>
        /\ pc = "raised"
        /\ raised.type = "ClassifierException"
        /\ \E i \in DOMAIN Flatten(response.stream) :
              /\ Flatten(response.stream)[i].type = "ARTIFACT_CLASSIFICATIONS"
              /\ Flatten(response.stream)[i].classifier = raised.classifier_result
              /\ raised.classifier_result.realized_action = "ACTION_OBFUSCATE"
        /\ ~retry_obfuscation => (Dispatches = 1 /\ request = sent[1])

(***************************************************************************)
(* C3, amended: an obfuscated response with retry-on-obfuscation disabled  *)
(* or on the final attempt raises ClassifierException carrying the first   *)
(* obfuscating classification of that response, and nothing is dispatched  *)
(* after it; with retry disabled the request is never mutated and every    *)
(* dispatch before the obfuscated one was a retried transport failure (so  *)
(* the request is dispatched exactly once when none preceded).             *)
(***************************************************************************)
C3_ClassifierTerminal ==
    (/\ Dispatches > 0
     /\ outcomes[Dispatches] = "obfuscated"
     /\ (~retry_obfuscation \/ Dispatches = max_retries + 1)) =>
        /\ pc = "raised"
        /\ raised = [type |-> "ClassifierException", classifier_result |-> FirstObfuscation(response.stream)]
        /\ Observed(response) = "obfuscated"
        /\ ~retry_obfuscation =>
              /\ \A i \in 1..(Dispatches - 1) : outcomes[i] = "rpc_error"
              /\ \A i \in DOMAIN sent : sent[i] = request
              /\ Count("rpc_error") = 0 => Dispatches = 1

C3_Witness ==
    /\ ~retry_obfuscation
    /\ outcomes = << "rpc_error", "obfuscated" >>
    /\ pc = "raised"
    /\ raised.type = "ClassifierException"
    /\ request.class = "Request"
    /\ HasField(request.image)

(***************************************************************************)
(* C4: whatever the remote service answers (transport failures,            *)
(* obfuscations and successes in any order), one call dispatches at most   *)
(* max_retries + 1 times in total and has ended once it has dispatched     *)
(* that many times: obfuscation retries and transport retries share one    *)
(* attempt budget.                                                         *)
(***************************************************************************)
C4_AttemptBudget ==
    /\ Dispatches <= max_retries + 1
    /\ Dispatches = max_retries + 1 => pc \in {"returned", "raised"}
    /\ attempt <= max_retries
    /\ pc = "loop" => attempt = Dispatches

C4_Witness ==
    /\ max_retries = 2
    /\ outcomes = << "obfuscated", "rpc_error", "obfuscated" >>
    /\ pc = "raised"

\* The decoded value of one artifact of a recognised kind.
DecodedValue(artifact) ==
    IF artifact.type = "ARTIFACT_CLASSIFICATIONS" THEN artifact.classifier
    ELSE IF artifact.type = "ARTIFACT_IMAGE" THEN ImDecode(artifact.binary)
    ELSE "undecoded"

\* For each kind that occurs in the stream, the decoded values of the
\* artifacts of that kind, in stream order.
DecodedByKind(stream) ==
    LET flat == Flatten(stream)
        OfKind(k) == SelectSeq(flat, LAMBDA a : a.type = k)
    IN  [ k \in { flat[i].type : i \in DOMAIN flat } |->
            [ j \in DOMAIN OfKind(k) |-> DecodedValue(OfKind(k)[j]) ] ]

(***************************************************************************)
(* C5: a call hands at most one mapping to its caller, and that mapping is *)
(* the decoding of the response stream of the attempt that succeeded (the  *)
(* last one), which ended without failure and without obfuscation; a call  *)
(* that raised has returned nothing.  Nothing decoded in an earlier attempt*)
(* is part of it.                                                          *)
(***************************************************************************)
C5_SingleResult ==
    /\ Len(returned) <= 1
    /\ pc = "returned" =>
          /\ returned = << results >>
          /\ response.error = <<>>
          /\ results = DecodedByKind(response.stream)
          /\ outcomes[Dispatches] = "ok"
          /\ \A i \in 1..(Dispatches - 1) : outcomes[i] \in {"obfuscated", "rpc_error"}
    /\ pc # "returned" => (returned = <<>> /\ results = <<>>)

C5_Witness ==
    /\ pc = "returned"
    /\ outcomes = << "obfuscated", "rpc_error", "ok" >>
    /\ Len(response.stream) = 2
    /\ DOMAIN results = {"ARTIFACT_IMAGE", "ARTIFACT_CLASSIFICATIONS"}

\* The image parameters of a request that has them: seeds, schedule start.
Seeds(rq) == rq.image[1].seed

HasStart(rq) ==
    /\ HasField(rq.image)
    /\ rq.image[1].parameters # <<>>
    /\ HasField(rq.image[1].parameters[1].schedule)
    /\ HasField(rq.image[1].parameters[1].schedule[1].start)

Start(rq) == rq.image[1].parameters[1].schedule[1].start[1]

Clamp(x) == IF x < 0 THEN 0 ELSE IF x > ScheduleOne THEN ScheduleOne ELSE x

\* A request with its seeds and its schedule start blanked: everything an
\* obfuscation retry must leave alone.
Masked(rq) ==
    IF ~HasField(rq.image) THEN rq
    ELSE [rq EXCEPT !.image[1].seed = [i \in DOMAIN @ |-> 0],
                    !.image[1].parameters = IF HasStart(rq) THEN [@ EXCEPT ![1].schedule[1].start[1] = 0] ELSE @]

SeedsIncremented(before, after, k) ==
    /\ DOMAIN Seeds(after) = DOMAIN Seeds(before)
    /\ \A j \in DOMAIN Seeds(before) : Seeds(after)[j] = Seeds(before)[j] + k

(***************************************************************************)
(* C6: for a single Request with image parameters, every obfuscation-      *)
(* triggered retry resubmits the request with each seed one higher than on *)
(* the obfuscated attempt, so after k such retries every seed is its       *)
(* original value plus k; no field other than the seeds and the schedule   *)
(* start differs from the original request.                                *)
(***************************************************************************)
C6_SeedIncrement ==
    (request.class = "Request" /\ HasField(request.image)) =>
        /\ \A i \in DOMAIN outcomes :
              ObfuscationRetry(i) =>
                  /\ SeedsIncremented(Timeline[i], Timeline[i + 1], 1)
                  /\ Masked(Timeline[i + 1]) = Masked(Timeline[i])
        /\ SeedsIncremented(Timeline[1], request, Cardinality({ i \in DOMAIN outcomes : ObfuscationRetry(i) }))
        /\ Masked(request) = Masked(Timeline[1])

C6_Witness ==
    /\ request.class = "Request"
    /\ HasField(request.image)
    /\ outcomes = << "obfuscated", "obfuscated" >>
    /\ pc = "loop"
    /\ Seeds(sent[1]) = << 3, 9 >>
    /\ Seeds(request) = << 5, 11 >>

\* The requests a call carries: the Request itself, or the embedded request
\* of each stage of a ChainRequest.
Slots(rq) == IF rq.class = "Request" THEN {1} ELSE DOMAIN rq.stage

Slot(rq, j) == IF rq.class = "Request" THEN rq ELSE rq.stage[j].request

\* Along the whole call the schedule start of slot j stays in [0, 1] and,
\* under the default offset, never decreases.
StartInRangeAndMonotone(j) ==
    \A i \in DOMAIN Timeline :
        HasStart(Slot(Timeline[i], j)) =>
            /\ Start(Slot(Timeline[i], j)) \in 0..ScheduleOne
            /\ (i > 1 /\ retry_schedule_offset = RetryScheduleOffset) =>
                  Start(Slot(Timeline[i], j)) >= Start(Slot(Timeline[i - 1], j))

(***************************************************************************)
(* C7 as stated: for a request with a schedule start, the first            *)
(* obfuscation-triggered retry of a call leaves the value unchanged and    *)
(* every later obfuscation-triggered retry sets it to                      *)
(* clamp(old_start + offset, 0, 1); the value stays in [0, 1] and, for the *)
(* default offset, never decreases.                                        *)
(***************************************************************************)
C7_Original ==
    \A j \in Slots(request) :
        /\ \A i \in DOMAIN outcomes :
              (ObfuscationRetry(i) /\ HasStart(Slot(Timeline[i], j))) =>
                  Start(Slot(Timeline[i + 1], j)) =
                      IF \A h \in 1..(i - 1) : outcomes[h] # "obfuscated"
                      THEN Start(Slot(Timeline[i], j))
                      ELSE Clamp(Start(Slot(Timeline[i], j)) + retry_schedule_offset)
        /\ StartInRangeAndMonotone(j)

(***************************************************************************)
(* What the code does where C7 fails: the shift is gated on the attempt    *)
(* index.  An obfuscation-triggered retry made on attempt index 0 leaves   *)
(* the schedule start unchanged and one made on any later attempt index    *)
(* (the earlier attempts having been obfuscated or having failed in        *)
(* transport) sets it to clamp(old_start + offset, 0, 1); the value stays  *)
(* in [0, 1] and, for the default offset, never decreases.                 *)
(***************************************************************************)
ScheduleShiftByAttemptIndex ==
    \A j \in Slots(request) :
        /\ \A i \in DOMAIN outcomes :
              (ObfuscationRetry(i) /\ HasStart(Slot(Timeline[i], j))) =>
                  /\ HasStart(Slot(Timeline[i + 1], j))
                  /\ Start(Slot(Timeline[i + 1], j)) =
                        IF i = 1
                        THEN Start(Slot(Timeline[i], j))
                        ELSE Clamp(Start(Slot(Timeline[i], j)) + retry_schedule_offset)
        /\ StartInRangeAndMonotone(j)

\* The first obfuscation-triggered retry of a call shifting the start.
ShiftOnFirstObfuscationRetry ==
    /\ request.class = "Request"
    /\ HasStart(request)
    /\ retry_schedule_offset = RetryScheduleOffset
    /\ outcomes = << "rpc_error", "obfuscated" >>
    /\ pc = "loop"
    /\ Start(sent[1]) = 95
    /\ Start(request) = ScheduleOne

(***************************************************************************)
(* C8 as stated: with retry-on-obfuscation enabled, an obfuscated response *)
(* to a single Request without image parameters raises ClassifierException *)
(* on its first occurrence: the request is dispatched once, is not         *)
(* mutated, and is never resubmitted.                                      *)
(***************************************************************************)
C8_Original ==
    (retry_obfuscation /\ request.class = "Request" /\ ~HasField(request.image)) =>
        \A i \in DOMAIN outcomes :
            outcomes[i] = "obfuscated" =>
                /\ pc = "raised"
                /\ raised.type = "ClassifierException"
                /\ Dispatches = 1
                /\ request = sent[1]

(***************************************************************************)
(* C8, amended: with retry-on-obfuscation enabled, an obfuscated response  *)
(* to a single Request without image parameters raises ClassifierException *)
(* on its first occurrence: the obfuscated dispatch is the last one, the   *)
(* request is never mutated, and every dispatch before it was a retried    *)
(* transport failure (so the request is dispatched once when none          *)
(* preceded).                                                              *)
(***************************************************************************)
C8_NoImageTerminal ==
    (retry_obfuscation /\ request.class = "Request" /\ ~HasField(request.image)) =>
        /\ \A i \in DOMAIN sent : sent[i] = request
        /\ \A i \in DOMAIN outcomes :
              outcomes[i] = "obfuscated" =>
                  /\ i = Dispatches
                  /\ pc = "raised"
                  /\ raised = [type |-> "ClassifierException", classifier_result |-> FirstObfuscation(response.stream)]
                  /\ \A h \in 1..(i - 1) : outcomes[h] = "rpc_error"
                  /\ Count("rpc_error") = 0 => Dispatches = 1

C8_Witness ==
    /\ retry_obfuscation
    /\ max_retries = 2
    /\ request.class = "Request"
    /\ ~HasField(request.image)
    /\ outcomes = << "obfuscated" >>
    /\ pc = "raised"
    /\ raised.type = "ClassifierException"

(***************************************************************************)
(* C9: with retry-on-obfuscation enabled, an obfuscated response to a      *)
(* ChainRequest none of whose stages carries image parameters raises       *)
(* ClassifierException on its first occurrence: the obfuscated dispatch is *)
(* the last one, the unmodified chain is not resubmitted.                  *)
(***************************************************************************)
C9_ChainNoImageTerminal ==
    (/\ retry_obfuscation
     /\ request.class = "ChainRequest"
     /\ \A j \in DOMAIN request.stage : ~HasField(request.stage[j].request.image)) =>
        \A i \in DOMAIN outcomes :
            outcomes[i] = "obfuscated" =>
                /\ i = Dispatches
                /\ pc = "raised"
                /\ raised.type = "ClassifierException"

(***************************************************************************)
(* C10: an obfuscation-triggered retry of a ChainRequest adjusts the       *)
(* embedded request of every stage that carries image parameters, wherever *)
(* the stage stands in the chain (each seed one higher, the schedule start *)
(* shifted by the rule of the attempt index, nothing else changed), and    *)
(* leaves every stage without image parameters, every stage id and every   *)
(* transition as they were.                                                *)
(***************************************************************************)
C10_ChainEveryStage ==
    request.class = "ChainRequest" =>
        \A i \in DOMAIN outcomes :
            ObfuscationRetry(i) =>
                /\ Timeline[i + 1].request_id = Timeline[i].request_id
                /\ DOMAIN Timeline[i + 1].stage = DOMAIN Timeline[i].stage
                /\ \A j \in DOMAIN Timeline[i].stage :
                      LET before == Timeline[i].stage[j]
                          after == Timeline[i + 1].stage[j]
                      IN  /\ after.id = before.id
                          /\ after.on_status = before.on_status
                          /\ IF HasField(before.request.image)
                             THEN /\ SeedsIncremented(before.request, after.request, 1)
                                  /\ Masked(after.request) = Masked(before.request)
                                  /\ HasStart(before.request) =>
                                        Start(after.request) =
                                            IF i = 1 THEN Start(before.request)
                                            ELSE Clamp(Start(before.request) + retry_schedule_offset)
                             ELSE after.request = before.request

C10_Witness ==
    /\ request.class = "ChainRequest"
    /\ request.request_id = "custom_chain"
    /\ outcomes = << "obfuscated", "obfuscated" >>
    /\ pc = "loop"
    /\ Seeds(request.stage[1].request) = << 5, 11 >>
    /\ Seeds(request.stage[3].request) = << 9 >>
    /\ request.stage[2] = sent[1].stage[2]

(***************************************************************************)
(* Vocabulary of the storage properties.                                   *)
(***************************************************************************)
\* The last operation was the named one and it completed (it did not raise).
Completed(name) == op.name = name /\ op.raised = None

\* The positions of the backends flagged primary and primary_fs.
PrimaryAt == { i \in 1..Len(backends) : backends[i].primary }

PrimaryFsAt == { i \in 1..Len(backends) : backends[i].primary_fs }

\* The calls of the last operation made to backend i.
CallsTo(i) == { k \in DOMAIN op.calls : op.calls[k].backend = i }

\* Text t names identifier a: it is a itself, or a after a path.
Names(t, a) == t = a \/ t = "org/assets/" \o a

\* A project's sub-mapping in an index, empty when the project is not there.
EntriesOf(index, project_id) == IF project_id \in DOMAIN index THEN index[project_id] ELSE <<>>

(***************************************************************************)
(* C11: in the configuration with one primary and one primary_fs backend,  *)
(* after Project.put_image_asset completes the index holds under the       *)
(* project id exactly one entry it did not hold before; its key is the     *)
(* asset id the primary backend returned, its filename is the value the    *)
(* primary_fs backend returned and its mime type is image/png.             *)
(***************************************************************************)
C11_IdentifierPropagation ==
    (Completed("put_image_asset") /\ Cardinality(PrimaryAt) = 1 /\ Cardinality(PrimaryFsAt) = 1) =>
        LET before == EntriesOf(op.index_before, op.project)
            after == EntriesOf(metadata_index, op.project)
            new == DOMAIN after \ DOMAIN before
        IN  /\ Cardinality(new) = 1
            /\ \A k \in DOMAIN before : after[k] = before[k]
            /\ \A a \in new :
                  /\ \E i \in PrimaryAt : \E k \in CallsTo(i) : Names(op.calls[k].result, a)
                  /\ \E i \in PrimaryFsAt : \E k \in CallsTo(i) :
                        after[a] = [mime_type |-> "image/png", filename |-> op.calls[k].result]

C11_Witness ==
    /\ Completed("put_image_asset")
    /\ op.project = "id1"
    /\ op.calls[1].result = "org/assets/id2"
    /\ op.calls[2].result = "id2"
    /\ DOMAIN metadata_index["id1"] = { "id1", "project_file_id", "id2" }
    /\ metadata_index["id1"]["id2"].filename = "id2"

\* In the last operation the primary backend's write went through and the
\* write of a backend that is not primary, called after it, raised.
MirrorFailedAfterPrimary ==
    \E k \in DOMAIN op.calls :
        /\ backends[op.calls[k].backend].primary
        /\ op.calls[k].raised = None
        /\ \E m \in DOMAIN op.calls :
              m > k /\ ~backends[op.calls[m].backend].primary /\ op.calls[m].raised # None

(***************************************************************************)
(* C12: when, in Project.put_image_asset or Project.put_video_asset, the   *)
(* write of the mirror backend fails after the primary backend's write     *)
(* succeeded, the index holds an entry keyed by the asset id the primary   *)
(* assigned (nothing is rolled back) and the asset is there for a later    *)
(* read through the primary backend.                                       *)
(***************************************************************************)
C12_PartialMirrorDurability ==
    (op.name \in { "put_image_asset", "put_video_asset" } /\ MirrorFailedAfterPrimary) =>
        \E k \in DOMAIN op.calls : \E a \in Ids :
            /\ backends[op.calls[k].backend].primary
            /\ Names(op.calls[k].result, a)
            /\ a \in DOMAIN EntriesOf(metadata_index, op.project)
            /\ \E asset \in remote.assets : asset.project = op.project /\ asset.id = a

\* The last operation was one of the three reads of Project.
IsRead == op.name \in { "get_settings", "get_image_asset", "get_video_asset" }

ReadMethod == [ get_settings |-> "get_project_settings", get_image_asset |-> "get_image_asset", get_video_asset |-> "get_video_asset" ]

(***************************************************************************)
(* C13: Project.get_settings, get_image_asset and get_video_asset call the *)
(* read method of a backend flagged primary and nothing else: whatever the *)
(* registration (several backends, the primary first or not), a read makes *)
(* at most one backend call, to a primary backend, with the matching read  *)
(* method; and a read changes no backend state and no index entry (the     *)
(* remote store, the local files, the index and its file are after the     *)
(* read what they were before it).                                         *)
(***************************************************************************)
C13_ReadExclusivity ==
    /\ [](IsRead =>
            /\ Len(op.calls) <= 1
            /\ \A k \in DOMAIN op.calls :
                  /\ backends[op.calls[k].backend].primary
                  /\ op.calls[k].method = ReadMethod[op.name]
            /\ op.raised = None => Len(op.calls) = 1)
    /\ [][ op'.name \in { "get_settings", "get_image_asset", "get_video_asset" } =>
              UNCHANGED << backends, remote, files, metadata_index, index_file, minted >> ]_vars

C13_Witness ==
    /\ op.name = "get_settings"
    /\ Len(backends) = 2
    /\ ~backends[1].primary
    /\ Len(op.calls) = 1
    /\ op.calls[1].backend = 2
    /\ op.calls[1].method = "get_project_settings"

\* The last operation was one of the four fan-out writes of Project.
IsFanOutWrite == op.name \in { "create", "save_settings", "put_image_asset", "put_video_asset" }

(***************************************************************************)
(* C14: in every fan-out write of Project (create, save_settings,          *)
(* put_image_asset, put_video_asset) the backends are called one after the *)
(* other in registration order, the first failure ends the operation with  *)
(* that exception, and when it is the primary backend's write that fails   *)
(* no mirror backend has been written and the index is what it was before  *)
(* the operation.                                                          *)
(***************************************************************************)
C14_WriteOrder ==
    IsFanOutWrite =>
        /\ \A k \in DOMAIN op.calls : op.calls[k].backend = k
        /\ Len(op.calls) <= Len(backends)
        /\ op.raised = None => Len(op.calls) = Len(backends)
        /\ \A k \in DOMAIN op.calls :
              op.calls[k].raised # None =>
                  /\ k = Len(op.calls)
                  /\ op.raised = op.calls[k].raised
                  /\ metadata_index = op.index_before
                  /\ backends[k].primary =>
                        \A m \in DOMAIN op.calls : backends[op.calls[m].backend].primary

C14_Witness ==
    /\ op.name = "save_settings"
    /\ Len(op.calls) = 1
    /\ backends[1].primary
    /\ op.calls[1].raised = "RpcError"
    /\ op.raised = "RpcError"
    /\ << "id1", "project_settings.json" >> \notin DOMAIN files
    /\ << "id1", "id1" >> \in DOMAIN files

\* Where a backend keeps asset a of project p after the named write.
StoredIn(i, name, p, a) ==
    IF backends[i].class = "AssetServiceBackend"
    THEN \E asset \in remote.assets : asset.project = p /\ asset.id = a
    ELSE IF name = "put_image_asset"
    THEN << p, a \o ".png" >> \in DOMAIN files
    ELSE << p, a >> \in DOMAIN files

(***************************************************************************)
(* C15: in Project.put_image_asset and Project.put_video_asset every       *)
(* backend that is not primary is called with the asset id the primary     *)
(* backend assigned in an earlier call of the same operation and answers   *)
(* with that very id; after a completed call every backend stores the      *)
(* asset under that one identifier.                                        *)
(***************************************************************************)
C15_SameIdentifier ==
    op.name \in { "put_image_asset", "put_video_asset" } =>
        /\ \A k \in DOMAIN op.calls :
              ~backends[op.calls[k].backend].primary =>
                  /\ op.calls[k].asset_id \in Ids
                  /\ \E j \in 1..(k - 1) :
                        /\ backends[op.calls[j].backend].primary
                        /\ op.calls[j].raised = None
                        /\ Names(op.calls[j].result, op.calls[k].asset_id)
                  /\ op.calls[k].raised = None => op.calls[k].result = op.calls[k].asset_id
        /\ op.raised = None =>
              \E a \in Ids :
                  /\ op.returned = << << a >> >>
                  /\ \A i \in 1..Len(backends) : StoredIn(i, op.name, op.project, a)

C15_Witness ==
    /\ Completed("put_video_asset")
    /\ op.calls[1].result = "org/assets/id2"
    /\ op.calls[2].asset_id = "id2"
    /\ << "id1", "id2" >> \in DOMAIN files
    /\ \E asset \in remote.assets : asset.id = "id2"

\* The project record a backend holds under id p, << the record >> or <<>>.
RecordIn(i, p) ==
    IF backends[i].class = "AssetServiceBackend"
    THEN IF p \in DOMAIN remote.projects THEN << remote.projects[p] >> ELSE <<>>
    ELSE IF << p, p >> \in DOMAIN files THEN << files[<< p, p >>] >> ELSE <<>>

(***************************************************************************)
(* C16: after Project.create completes, every registered backend holds a   *)
(* project record under the id the primary backend assigned, with that id  *)
(* in it: each backend called after the primary got that id as             *)
(* proj_id_to_use and answered with a project of that id, none with an id  *)
(* of its own.                                                             *)
(***************************************************************************)
C16_ProjectIdMirrored ==
    Completed("create") =>
        \E j \in DOMAIN op.calls :
            LET p == op.calls[j].result.id
            IN  /\ backends[op.calls[j].backend].primary
                /\ \A k \in DOMAIN op.calls :
                      k > j => (op.calls[k].asset_id = p /\ op.calls[k].result.id = p)
                /\ \A i \in 1..Len(backends) : RecordIn(i, p) # <<>> /\ RecordIn(i, p)[1].id = p
                /\ op.project = p
                /\ \A k \in DOMAIN op.calls : op.calls[k].result.id = p

C16_Witness ==
    /\ Completed("create")
    /\ op.project = "id2"
    /\ op.calls[2].asset_id = "id2"
    /\ << "id2", "id2" >> \in DOMAIN files
    /\ "id2" \in DOMAIN remote.projects
    /\ "id1" \in DOMAIN remote.projects

(***************************************************************************)
(* C17: after Project.delete completes, delete_project has been called for *)
(* the project id on every registered backend, in registration order and   *)
(* without failure; the remote service holds no record of the project, no  *)
(* file is left below the project's directory, and the index in memory has *)
(* no entry for the project id.                                            *)
(***************************************************************************)
C17_DeleteEverywhere ==
    Completed("delete") =>
        /\ Len(op.calls) = Len(backends)
        /\ \A k \in DOMAIN op.calls :
              /\ op.calls[k].backend = k
              /\ op.calls[k].method = "delete_project"
              /\ op.calls[k].asset_id = op.project
              /\ op.calls[k].raised = None
        /\ op.project \notin DOMAIN remote.projects
        /\ \A path \in DOMAIN files : path[1] # op.project
        /\ op.project \notin DOMAIN metadata_index
        /\ \A p \in DOMAIN op.index_before : p # op.project => (p \in DOMAIN metadata_index /\ metadata_index[p] = op.index_before[p])

C17_Witness ==
    /\ Completed("delete")
    /\ op.project = "id1"
    /\ "id1" \in DOMAIN op.index_before
    /\ "id2" \in DOMAIN op.index_before["id1"]
    /\ files = <<>>
    /\ remote.projects = <<>>

\* The last operation was one of the mutating operations of Project.
IsMutation == op.name \in { "create", "save_settings", "put_image_asset", "put_video_asset", "delete" }

(***************************************************************************)
(* C18: the index file is rewritten in full on every mutation: after each  *)
(* completed create, save_settings, put_image_asset, put_video_asset and   *)
(* delete the content of metadata_index.json is the index in memory, so    *)
(* the index loaded at the next start equals the index as the last         *)
(* mutation left it.                                                       *)
(***************************************************************************)
C18_IndexFileCurrent ==
    (IsMutation /\ op.raised = None) =>
        /\ index_file = << json_dump(metadata_index) >>
        /\ load_metadata_index(index_file) = metadata_index

\* Call c of an operation is a put_image_asset / put_video_asset of a
\* LocalFileBackend made without an asset id.
LocalPutWithoutId(c) ==
    /\ c.method \in { "put_image_asset", "put_video_asset" }
    /\ backends[c.backend].class = "LocalFileBackend"
    /\ c.asset_id = None

(***************************************************************************)
(* C19: LocalFileBackend.put_image_asset and put_video_asset called        *)
(* without an asset id mint an id only when the backend is flagged         *)
(* primary: a backend that is not primary fails with ValueError and the    *)
(* files are what they were before the call; a primary backend that        *)
(* answers has stored the asset under an id that was not known before.     *)
(***************************************************************************)
C19_MintOnlyWhenPrimary ==
    /\ [](\A k \in DOMAIN op.calls :
            LocalPutWithoutId(op.calls[k]) =>
                IF backends[op.calls[k].backend].primary
                THEN /\ op.calls[k].raised \in { None, "OSError", "ValueError" }
                     /\ op.calls[k].raised = None =>
                           /\ op.calls[k].result \in Ids
                           /\ StoredIn(op.calls[k].backend, op.name, op.project, op.calls[k].result)
                ELSE op.calls[k].raised = "ValueError")
    /\ [][ \A k \in DOMAIN op'.calls :
              LocalPutWithoutId(op'.calls[k]) =>
                  IF backends[op'.calls[k].backend].primary
                  THEN op'.calls[k].raised = None =>
                          /\ op'.calls[k].result \notin KnownIds
                          /\ \A path \in DOMAIN files : path[2] \notin { op'.calls[k].result, op'.calls[k].result \o ".png" }
                  ELSE files' = files ]_vars

C19_Witness ==
    /\ op.name = "put_image_asset"
    /\ Len(op.calls) = 1
    /\ backends[1] = LocalFileBackend(FALSE, TRUE)
    /\ op.calls[1].asset_id = None
    /\ op.calls[1].raised = "ValueError"
    /\ op.raised = "ValueError"

\* The chain the last chain-building call handed to _run_request, if it
\* built one.
BuiltChain == chain_rq # <<>> /\ chain_rq[1].class = "ChainRequest"

(***************************************************************************)
(* C20: every ChainRequest built by Context.transform_and_generate,        *)
(* Context.transform (two or more parameters) and Context.transform_3d is  *)
(* a directed path: the stage ids are pairwise distinct, every stage but   *)
(* the last has one PASS transition whose target is the id of the next     *)
(* stage, the last stage has one RETURN transition with no target and is   *)
(* the only one that returns, and every target is the id of a stage of the *)
(* chain.                                                                  *)
(***************************************************************************)
C20_ChainIsPath ==
    BuiltChain =>
        LET stage == chain_rq[1].stage
            n == Len(stage)
        IN  /\ n >= 1
            /\ \A i, j \in 1..n : stage[i].id = stage[j].id => i = j
            /\ \A i \in 1..(n - 1) :
                  stage[i].on_status = << [action |-> << "STAGE_ACTION_PASS" >>, target |-> << stage[i + 1].id >>] >>
            /\ stage[n].on_status = << [action |-> << "STAGE_ACTION_RETURN" >>, target |-> <<>>] >>
            /\ \A i \in 1..n : \A k \in DOMAIN stage[i].on_status :
                  /\ "STAGE_ACTION_RETURN" \in { stage[i].on_status[k].action[a] : a \in DOMAIN stage[i].on_status[k].action } => i = n
                  /\ \A t \in DOMAIN stage[i].on_status[k].target :
                        \E j \in 1..n : stage[j].id = stage[i].on_status[k].target[t]

C20_Witness ==
    /\ BuiltChain
    /\ chain_in.operation = "transform_and_generate"
    /\ Len(chain_in.params) = 3
    /\ Len(chain_rq[1].stage) = 4
    /\ chain_rq[1].stage[3].on_status[1].target = << "3" >>
    /\ chain_rq[1].stage[4].id = "3"
    /\ chain_rq[1].stage[4].request = chain_in.generate_request

\* The Context with _debug_no_chains set and the one without have both made
\* the call.
BothModesRan == DOMAIN pipe_out = BOOLEAN

(***************************************************************************)
(* C21: for the same arguments and the same deterministic service, a call  *)
(* of transform_and_generate or transform_3d with _debug_no_chains set     *)
(* (stage by stage, the output spliced into the next prompt list by the    *)
(* client) and the call with the server-side chain return the same final   *)
(* artifacts (or neither returns), also when stages fail transiently or    *)
(* are obfuscated and retried.                                             *)
(***************************************************************************)
C21_ModeEquivalence ==
    BothModesRan => pipe_out[TRUE].returned = pipe_out[FALSE].returned

(***************************************************************************)
(* C27: every dispatch of a pipeline call, in chain mode and in no-chain   *)
(* mode, every stage included, is under the retry protocol: a transport    *)
(* failure with RESOURCE_EXHAUSTED ends the call with                      *)
(* OutOfCreditsException, and any other transport failure is followed by   *)
(* another dispatch of the same _run_request call unless that call has     *)
(* dispatched max_retries + 1 times, in which case the call ends with that *)
(* RpcError.                                                               *)
(***************************************************************************)
C27_RetryCoverage ==
    \A m \in DOMAIN pipe_out :
        LET o == pipe_out[m]
            n == Len(o.dispatches)
            Failed(i) == o.dispatches[i].response.error # <<>>
            Exhausted(i) == Failed(i) /\ o.dispatches[i].response.error[1].code = << "RESOURCE_EXHAUSTED" >>
            InCall(i) == { j \in 1..n : o.dispatches[j].call = o.dispatches[i].call }
        IN  \A i \in 1..n :
              /\ Exhausted(i) => (i = n /\ o.raised.type = "OutOfCreditsException")
              /\ (Failed(i) /\ ~Exhausted(i)) =>
                    \/ \E j \in InCall(i) : j > i
                    \/ /\ Cardinality(InCall(i)) = max_retries + 1
                       /\ i = n
                       /\ o.raised = [type |-> "RpcError", error |-> o.dispatches[i].response.error[1]]

(***************************************************************************)
(* C22: Project.update_project(title, file_id) updates the project record  *)
(* in every registered backend, in registration order, and ends normally;  *)
(* the Project object then has the new title (and the new file id when one *)
(* was given).                                                             *)
(***************************************************************************)
C22_UpdateProject ==
    op.name = "update_project" =>
        /\ op.raised = None
        /\ [ k \in DOMAIN op.calls |-> op.calls[k].backend ] = [ i \in 1..Len(backends) |-> i ]
        /\ \A k \in DOMAIN op.calls : op.calls[k].raised = None
        /\ \E self \in handles : self.id = op.project /\ self.title \in NewTitles

(***************************************************************************)
(* C23: a read of an image or video asset through a backend that does not  *)
(* implement the optional read ends in a not-supported error; it never     *)
(* returns normally with an absent value.                                  *)
(***************************************************************************)
NotSupportedErrors == { "NotImplementedError" }

C23_NotSupported ==
    /\ op.name \in { "get_image_asset", "get_video_asset" }
    /\ op.calls # <<>>
    /\ backends[op.calls[1].backend].class = "WriteOnlyBackend"
    => /\ op.raised \in NotSupportedErrors
       /\ op.returned = <<>>

(***************************************************************************)
(* C24: in every reachable state of the metadata index every value stored  *)
(* under a project id is an asset record with a mime_type.                 *)
(***************************************************************************)
\* The asset ids the stores hand out.
AssetIds == { IdOf(n) : n \in 1..(MaxIds + 1) }

\* v is a text (an asset id), not a record.
IsText(v) == ToString(v) \in { ToString(a) : a \in AssetIds }

IsAssetRecord(v) ==
    /\ ~IsText(v)
    /\ "mime_type" \in DOMAIN v
    /\ DOMAIN v \subseteq { "mime_type", "filename", "role" }

InvalidVideoPaths == { path \in VideoPaths : ~(isfile(path) /\ EndsWithMp4(path)) }

C25_LocalPrecondition ==
    [][ op'.name = "put_video_asset" =>
            \A self \in { h \in handles : h.id = op'.project }, path \in InvalidVideoPaths, env \in BackendEnvs :
                ProjectPut("put_video_asset", "put_video_asset", self, path, env) =>
                    /\ op'.raised = "ValueError"
                    /\ op'.returned = <<>>
                    /\ Len(op'.calls) = 1
                    /\ op'.calls[1].backend = 1
                    /\ remote' = remote
                    /\ files' = files
                    /\ metadata_index' = metadata_index
                    /\ index_file' = index_file ]_vars

C25_Witness ==
    /\ op.name = "put_video_asset"
    /\ op.raised = "ValueError"
    /\ Len(op.calls) = 1
    /\ op.calls[1].backend = 1
    /\ remote.assets # {}
    /\ files # <<>>

(***************************************************************************)
(* C26: _run_request sleeps d * 2^a after a transport failure on attempt   *)
(* index a that is not the final attempt, and does not sleep after the     *)
(* final failure or after anything else; when all N + 1 attempts fail with *)
(* transport errors the sleeps are d*2^0, ..., d*2^(N-1) in that order and *)
(* total d * (2^N - 1).                                                    *)
(***************************************************************************)
\* The sleeps the dispatches from the i-th on ask for: dispatch i is
\* attempt index i - 1.
RECURSIVE SleepsFrom(_)
SleepsFrom(i) ==
    IF i > Len(outcomes) THEN <<>>
    ELSE IF outcomes[i] = "rpc_error" /\ i - 1 < max_retries
    THEN << RetryDelay * 2^(i - 1) >> \o SleepsFrom(i + 1)
    ELSE SleepsFrom(i + 1)

RECURSIVE Total(_)
Total(s) == IF s = <<>> THEN 0 ELSE Head(s) + Total(Tail(s))

AllAttemptsFailed ==
    /\ Len(outcomes) = max_retries + 1
    /\ \A i \in DOMAIN outcomes : outcomes[i] = "rpc_error"

C26_BackoffSleeps ==
    /\ sleeps = SleepsFrom(1)
    /\ AllAttemptsFailed =>
           /\ sleeps = [ i \in 1..max_retries |-> RetryDelay * 2^(i - 1) ]
           /\ Total(sleeps) = RetryDelay * (2^max_retries - 1)

C26_Witness ==
    /\ AllAttemptsFailed
    /\ max_retries = MaxRetriesBound
    /\ pc = "raised"
    /\ Len(sleeps) >= 2

(***************************************************************************)
(* C28: a dispatch is treated as a policy rejection exactly when its       *)
(* response holds at least one classification result whose realized action *)
(* is OBFUSCATE: such a response is never returned (the call raises        *)
(* ClassifierException on it or dispatches again); a response without      *)
(* failure whose classification results all have another action, or that   *)
(* has none, is returned on that attempt: it is the last dispatch of the    *)
(* call and the request is the one that was sent.                          *)
(***************************************************************************)
C28_PolicyRejection ==
    /\ \A i \in DOMAIN outcomes :
           /\ outcomes[i] = "ok" =>
                  /\ i = Len(outcomes)
                  /\ pc = "returned"
                  /\ Len(returned) = 1
                  /\ raised.type = "None"
                  /\ request = sent[i]
                  /\ attempt = i - 1
           /\ outcomes[i] = "obfuscated" =>
                  /\ returned = <<>> \/ i < Len(outcomes)
                  /\ i = Len(outcomes) => pc = "loop" \/ raised.type = "ClassifierException"
    /\ pc = "returned" => outcomes[Len(outcomes)] = "ok"
    /\ raised.type = "ClassifierException" => outcomes[Len(outcomes)] = "obfuscated"

\* A response with two classification results, the second of them
\* OBFUSCATE, was rejected and retried; the retry's response, with a
\* classification result of another action, was returned.
C28_Witness ==
    /\ pc = "returned"
    /\ outcomes = << "obfuscated", "ok" >>
    /\ "ARTIFACT_CLASSIFICATIONS" \in DOMAIN results
    /\ sent[1] # sent[2]

(***************************************************************************)
(* C29: _process_response maps each artifact kind to the decoded values of *)
(* the artifacts of that kind, in stream order across messages and within  *)
(* a message: for every recognised kind the list has one value per         *)
(* artifact of the kind, and a kind without artifact in the stream is not  *)
(* a key of the mapping.                                                   *)
(***************************************************************************)
RecognisedKinds ==
    { "ARTIFACT_CLASSIFICATIONS", "ARTIFACT_DEPTH", "ARTIFACT_IMAGE", "ARTIFACT_MASK",
      "ARTIFACT_TENSOR", "ARTIFACT_TEXT", "ARTIFACT_VIDEO" }

\* The payload of an artifact, as the caller gets it.
PayloadOf(artifact) ==
    CASE artifact.type = "ARTIFACT_CLASSIFICATIONS" -> artifact.classifier
      [] artifact.type \in { "ARTIFACT_DEPTH", "ARTIFACT_IMAGE", "ARTIFACT_MASK" } ->
             IF artifact.binary = "png_a" THEN "pixels_a" ELSE "None"
      [] artifact.type = "ARTIFACT_TENSOR" -> artifact.tensor
      [] artifact.type = "ARTIFACT_TEXT" -> artifact.text
      [] artifact.type = "ARTIFACT_VIDEO" -> artifact.binary

\* The artifacts of kind k in the stream, in stream order.
OfKind(stream, k) == SelectSeq(Flatten(stream), LAMBDA a : a.type = k)

C29_DecodedByKind ==
    decoded # <<>> =>
        /\ \A k \in RecognisedKinds :
               IF OfKind(stream_in[1], k) = <<>>
               THEN k \notin DOMAIN decoded[1]
               ELSE /\ k \in DOMAIN decoded[1]
                    /\ Len(decoded[1][k]) = Len(OfKind(stream_in[1], k))
                    /\ \A j \in DOMAIN decoded[1][k] : decoded[1][k][j] = PayloadOf(OfKind(stream_in[1], k)[j])
        /\ \A k \in DOMAIN decoded[1] : OfKind(stream_in[1], k) # <<>>

\* Two texts in two messages, decoded in the order of the stream.
C29_Witness ==
    /\ decoded # <<>>
    /\ Len(stream_in[1]) = 2
    /\ "ARTIFACT_TEXT" \in DOMAIN decoded[1]
    /\ decoded[1]["ARTIFACT_TEXT"] = << "id2", "id1" >>

(***************************************************************************)
(* C30: the canonical asset id of save_settings, put_image_asset and       *)
(* put_video_asset is the primary backend's returned text when it holds no *)
(* '/', and otherwise the part after its last '/'; it is the key written   *)
(* to the metadata index and the id passed to the later backends.          *)
(***************************************************************************)
IsWrite == op.name \in { "save_settings", "put_image_asset", "put_video_asset" }

\* The call of the primary backend, when it answered.
PrimaryAnswer ==
    { k \in DOMAIN op.calls : backends[op.calls[k].backend].primary /\ op.calls[k].raised = None }

\* The identifiers hold no '/': a text without '/' is an identifier, and
\* the part after the last '/' of any other text is the identifier it ends
\* with.
CanonicalOf(text) ==
    IF text \in AssetIds THEN text
    ELSE CHOOSE id \in AssetIds : \E prefix \in { "org/assets" } : text = prefix \o "/" \o id

\* The canonical id is the key written to the index.
CanonicalIsKey(k) ==
    op.raised = None =>
        /\ CanonicalOf(op.calls[k].result) \in DOMAIN EntriesOf(metadata_index, op.project)
        /\ DOMAIN EntriesOf(metadata_index, op.project) \ DOMAIN EntriesOf(op.index_before, op.project)
               \subseteq { CanonicalOf(op.calls[k].result), "project_file_id" }

C30_CanonicalId ==
    IsWrite =>
        \A k \in PrimaryAnswer :
            /\ CanonicalIsKey(k)
            /\ \A j \in DOMAIN op.calls : j > k => op.calls[j].asset_id = CanonicalOf(op.calls[k].result)

\* C30, amended: the canonical id is the key written to the index in all
\* three operations; put_image_asset and put_video_asset pass it to the
\* later backends, save_settings passes no id to any backend
\* (put_project_settings takes none) and records the canonical id under
\* "project_file_id" as well.
C30_CanonicalIdAmended ==
    IsWrite =>
        \A k \in PrimaryAnswer :
            /\ CanonicalIsKey(k)
            /\ \A j \in DOMAIN op.calls : j > k =>
                   op.calls[j].asset_id = IF op.name = "save_settings" THEN None ELSE CanonicalOf(op.calls[k].result)
            /\ op.name = "save_settings" /\ op.raised = None =>
                   metadata_index[op.project]["project_file_id"] = CanonicalOf(op.calls[k].result)

\* The primary answered with a path and the mirror was called after it.
C30_Witness ==
    /\ op.name = "put_image_asset"
    /\ op.raised = None
    /\ Len(op.calls) = 2
    /\ op.calls[1].result \notin AssetIds
    /\ op.calls[2].asset_id \in AssetIds
    /\ op.calls[2].asset_id \in DOMAIN metadata_index[op.project]

(***************************************************************************)
(* C31: a retry caused by a transport failure leaves the request           *)
(* unchanged: the request of the resubmission equals, field by field, the  *)
(* request of the failed attempt (seeds, schedule start, every stage of a  *)
(* ChainRequest).                                                          *)
(***************************************************************************)
C31_TransportRetryKeepsRequest ==
    \A i \in DOMAIN outcomes :
        outcomes[i] = "rpc_error" =>
            /\ i < Len(sent) => sent[i + 1] = sent[i]
            /\ i = Len(sent) => request = sent[i]

\* An obfuscation retry changed the request, the changed request failed in
\* transport and was sent again.
C31_Witness ==
    /\ outcomes = << "obfuscated", "rpc_error", "ok" >>
    /\ sent[1] # sent[2]
    /\ sent[3] = sent[2]
    /\ pc = "returned"

(***************************************************************************)
(* C32: _run_request sleeps only after a transport failure that is not the *)
(* final one: the step of an obfuscation (retried or raised), of an        *)
(* out-of-credits failure, of the final transport failure and of a return  *)
(* adds no sleep, and a step that sleeps is a transport failure after      *)
(* which the loop goes on.                                                 *)
(***************************************************************************)
C32_SleepOnlyOnTransportRetry ==
    [][ /\ pc' = "raised" => sleeps' = sleeps
        /\ pc' = "returned" => sleeps' = sleeps
        /\ (Len(outcomes') > Len(outcomes) /\ outcomes'[Len(outcomes')] \in { "obfuscated", "exhausted", "ok" })
               => sleeps' = sleeps
        /\ sleeps' # sleeps =>
               /\ Len(sleeps') = Len(sleeps) + 1
               /\ outcomes'[Len(outcomes')] = "rpc_error"
               /\ attempt < max_retries
               /\ attempt' = attempt + 1
               /\ pc' = "loop" ]_vars

\* An obfuscation retry and a terminal transport failure, no sleep at all.
C32_Witness ==
    /\ outcomes = << "obfuscated", "rpc_error" >>
    /\ sent[1] # sent[2]
    /\ raised.type = "RpcError"
    /\ sleeps = <<>>

(***************************************************************************)
(* C33: the schedule-start shift is gated on the attempt index of the      *)
(* call, which counts transport-failure attempts too: an obfuscation retry *)
(* leaves the start as it is only when the obfuscation came on attempt     *)
(* index 0; on any later attempt index, the first obfuscation of the call  *)
(* after a transport failure included, the start becomes                   *)
(* clamp(start + offset, 0, 1).                                            *)
(***************************************************************************)
C33_ShiftGatedOnAttemptIndex ==
    \A j \in Slots(request) :
        \A i \in DOMAIN outcomes :
            (ObfuscationRetry(i) /\ HasStart(Slot(Timeline[i], j))) =>
                /\ i - 1 = 0 => Start(Slot(Timeline[i + 1], j)) = Start(Slot(Timeline[i], j))
                /\ i - 1 > 0 => Start(Slot(Timeline[i + 1], j)) =
                                    Clamp(Start(Slot(Timeline[i], j)) + retry_schedule_offset)

\* Attempt 0 failed in transport, attempt 1 was obfuscated: the first
\* obfuscation retry of the call has moved the start.
C33_Witness ==
    /\ request.class = "Request"
    /\ HasStart(request)
    /\ retry_schedule_offset = RetryScheduleOffset
    /\ outcomes = << "rpc_error", "obfuscated" >>
    /\ pc = "loop"
    /\ attempt = 2
    /\ Start(sent[2]) = 95
    /\ Start(request) = ScheduleOne

(***************************************************************************)
(* C34: the project_file_id entry of a project in the metadata index holds *)
(* the id returned by the most recent save_settings of the project (the id *)
(* recorded by create before any save), and get_settings asks the primary  *)
(* backend for that id.  Step by step: a save_settings that returns X sets *)
(* the entry to X, a create sets it to the id it recorded, every other     *)
(* step that does not delete the project leaves it, and a get_settings     *)
(* that reaches a backend passes it.                                       *)
(***************************************************************************)
\* The project_file_id entry of project p in an index: << the id >>, or <<>>.
RoleEntry(index, p) ==
    IF p \in DOMAIN index /\ "project_file_id" \in DOMAIN index[p]
    THEN << index[p]["project_file_id"] >>
    ELSE <<>>

\* The step is a save_settings or a create that returned, or a delete that
\* went through, for project p.
Rewrites(o, p) ==
    /\ o.name \in { "save_settings", "create", "delete" }
    /\ o.raised = None
    /\ o.project = p

C34_SavedIdIsRead ==
    [][ /\ (op'.name = "save_settings" /\ op'.raised = None) =>
               RoleEntry(metadata_index', op'.project) = op'.returned
        /\ (op'.name = "create" /\ op'.raised = None) =>
               RoleEntry(metadata_index', op'.project) = << op'.calls[1].result.id >>
        /\ \A self \in handles :
               ~Rewrites(op', self.id) =>
                   RoleEntry(metadata_index', self.id) = RoleEntry(metadata_index, self.id)
        /\ (op'.name = "get_settings" /\ op'.calls # <<>>) =>
               /\ << op'.calls[1].asset_id >> = RoleEntry(metadata_index, op'.project)
               /\ op'.calls[1].method = "get_project_settings"
               /\ backends[op'.calls[1].backend].primary ]_vars

\* A get_settings that asked the primary for the id a save_settings had
\* returned, which is not the id create recorded.
C34_Witness ==
    /\ op.name = "get_settings"
    /\ op.calls # <<>>
    /\ op.calls[1].asset_id # op.project
    /\ op.raised = None
    /\ << op.calls[1].asset_id >> = RoleEntry(metadata_index, op.project)

(***************************************************************************)
(* C35: Project.get_settings looks up the project's project_file_id in the *)
(* metadata index before it calls any backend: for a project without such  *)
(* an entry it fails with a lookup error (KeyError) and no backend is      *)
(* invoked.                                                                *)
(***************************************************************************)
C35_LookupBeforeBackend ==
    (op.name = "get_settings" /\ RoleEntry(op.index_before, op.project) = <<>>) =>
        /\ op.raised = "KeyError"
        /\ op.calls = <<>>
        /\ op.returned = <<>>

\* The project is on the remote service (its create failed on the mirror,
\* Project.get returned it) and the index has never recorded it.
C35_Witness ==
    /\ op.name = "get_settings"
    /\ op.raised = "KeyError"
    /\ op.calls = <<>>
    /\ op.project \in DOMAIN remote.projects
    /\ op.project \notin DOMAIN metadata_index

(***************************************************************************)
(* C36: Project.add_asset_metadata(p, a, ...) changes only the entry of    *)
(* asset a under project p, and p's role key when one is given: the        *)
(* entries of every other project and of every other asset id of p are the *)
(* same before and after the call.  Observed on the operations that call   *)
(* it once: create and save_settings (role key "project_file_id"),         *)
(* put_image_asset and put_video_asset (no role key).                      *)
(***************************************************************************)
CalledAddAssetMetadata ==
    /\ op.name \in { "create", "save_settings", "put_image_asset", "put_video_asset" }
    /\ op.raised = None

\* The asset id the operation handed to add_asset_metadata.
AddedAsset ==
    IF op.name = "create" THEN op.returned[1].id
    ELSE IF op.name = "save_settings" THEN op.returned[1]
    ELSE op.returned[1][1]

\* The keys of the project's sub-mapping the call may write.
WrittenKeys ==
    { AddedAsset } \cup (IF op.name \in { "create", "save_settings" } THEN { "project_file_id" } ELSE {})

C36_AddAssetMetadataFrame ==
    CalledAddAssetMetadata =>
        /\ DOMAIN metadata_index = DOMAIN op.index_before \cup { op.project }
        /\ \A p \in DOMAIN op.index_before : p # op.project => metadata_index[p] = op.index_before[p]
        /\ DOMAIN metadata_index[op.project] = DOMAIN EntriesOf(op.index_before, op.project) \cup WrittenKeys
        /\ \A k \in DOMAIN EntriesOf(op.index_before, op.project) \ WrittenKeys :
               metadata_index[op.project][k] = op.index_before[op.project][k]

\* An image was added to a project that had its settings asset and its
\* role key recorded.
C36_Witness ==
    /\ op.name = "put_image_asset"
    /\ op.raised = None
    /\ DOMAIN op.index_before[op.project] = { op.project, "project_file_id" }
    /\ DOMAIN metadata_index[op.project] = { op.project, "project_file_id", AddedAsset }
    /\ AddedAsset # op.project

(***************************************************************************)
(* C37: Project.delete is not atomic across backends: when delete_project  *)
(* raises on some backend, no later backend is asked to delete, the        *)
(* metadata index keeps the project's entry, and the backends earlier in   *)
(* registration order have already deleted the project.                    *)
(***************************************************************************)
\* Backend j holds nothing of project p.
DeletedIn(j, p) ==
    IF backends[j].class = "AssetServiceBackend"
    THEN p \notin DOMAIN remote.projects /\ \A a \in remote.assets : a.project # p
    ELSE \A path \in DOMAIN files : path[1] # p

C37_DeleteNotAtomic ==
    (op.name = "delete" /\ op.raised # None) =>
        /\ op.calls # <<>>
        /\ \A k \in DOMAIN op.calls :
               /\ op.calls[k].backend = k
               /\ op.calls[k].raised = IF k = Len(op.calls) THEN op.raised ELSE None
               /\ k < Len(op.calls) => DeletedIn(k, op.project)
        /\ metadata_index = op.index_before
        /\ \E self \in handles : self.id = op.project

\* The primary deleted the project, the mirror failed: the mirror's files
\* and the index entry are left.
C37_Witness ==
    /\ op.name = "delete"
    /\ op.raised = "OSError"
    /\ Len(op.calls) = 2
    /\ op.project \notin DOMAIN remote.projects
    /\ op.project \in DOMAIN metadata_index
    /\ \E path \in DOMAIN files : path[1] = op.project

(***************************************************************************)
(* C39: LocalFileBackend.delete_project called with an empty or absent id  *)
(* returns without removing anything; no call of it removes the projects   *)
(* root or anything of a project other than the one named.                 *)
(***************************************************************************)
\* The files below the projects root that are not below project id.
FilesOutside(fs, id) == [ path \in { q \in DOMAIN fs : q[1] # id } |-> fs[path] ]

C39_DeleteOnlyNamedProject ==
    [][ op'.name = "LocalFileBackend.delete_project" =>
            /\ op'.project \in { None, "" } => (files' = files /\ op'.raised = None)
            /\ FilesOutside(files', op'.project) = FilesOutside(files, op'.project)
            /\ DOMAIN files' \subseteq DOMAIN files ]_vars

\* Two projects have files; the last call had an empty id and both are
\* still there.
C39_Witness ==
    /\ op.name = "LocalFileBackend.delete_project"
    /\ op.project = ""
    /\ op.raised = None
    /\ \E p, q \in DOMAIN files : p[1] # q[1]


(***************************************************************************)
(* Several processes over one metadata_index.json. Project._metadata_index *)
(* is a class attribute: each process has its own copy, and the file in    *)
(* the working directory is the one thing they share.                      *)
(***************************************************************************)
Processes == { 1, 2 }

\* The metadata_index.json the processes find: none, or the one an earlier
\* run left after Project.create.
EarlierIndexFiles ==
    { <<>>,
      save_metadata_index(add_asset_metadata(<<>>, IdOf(1), IdOf(1), "application/json", None, "project_file_id")) }

\* The project the processes work on: the one of the earlier run.
ProcessProjects == { IdOf(1) }

\* The assets they add: the one the earlier run stored, and a new one.
ProcessAssets == { IdOf(1), IdOf(2) }

ProcessOp(p, name, project_id, asset_id) ==
    << [ process |-> p, name |-> name, project |-> project_id, asset |-> asset_id ] >>

\* Project.init_backends in process p: the one place where the file is read.
Process_init_backends ==
    \E p \in Processes \ DOMAIN process_index :
        LET index == load_metadata_index(index_file) IN
        /\ process_index' = Put(process_index, p, index)
        /\ process_loaded' = Put(process_loaded, p, index)
        /\ process_added' = Put(process_added, p, {})
        /\ process_op' = ProcessOp(p, "init_backends", None, None)
        /\ UNCHANGED << run_vars, storage_vars, chain_vars, pipe_vars, decoder_vars >>

\* A variant that reads the file again before it adds (the line that is
\* commented out at the head of add_asset_metadata).
ProcessAddReloading(p, project_id, asset_id, mime_type, filename, project_key) ==
    LET index == add_asset_metadata(load_metadata_index(index_file), project_id, asset_id,
                                    mime_type, filename, project_key) IN
    /\ process_index' = [process_index EXCEPT ![p] = index]
    /\ index_file' = save_metadata_index(index)
    /\ process_added' = [process_added EXCEPT ![p] = @ \cup { << project_id, asset_id >> }]
    /\ process_op' = ProcessOp(p, "add_asset_metadata", project_id, asset_id)
    /\ UNCHANGED << process_loaded, backends, remote, files, metadata_index, handles, minted, op,
                    run_vars, chain_vars, pipe_vars, decoder_vars >>

\* Project.add_asset_metadata in process p: the entry goes into the copy of
\* this process, and save_metadata_index writes that copy over the file.
ProcessAdd(p, project_id, asset_id, mime_type, filename, project_key) ==
    LET index == add_asset_metadata(process_index[p], project_id, asset_id,
                                    mime_type, filename, project_key) IN
    /\ process_index' = [process_index EXCEPT ![p] = index]
    /\ index_file' = save_metadata_index(index)
    /\ process_added' = [process_added EXCEPT ![p] = @ \cup { << project_id, asset_id >> }]
    /\ process_op' = ProcessOp(p, "add_asset_metadata", project_id, asset_id)
    /\ UNCHANGED << process_loaded, backends, remote, files, metadata_index, handles, minted, op,
                    run_vars, chain_vars, pipe_vars, decoder_vars >>

\* The callers of add_asset_metadata pass the role key (create,
\* save_settings) or none (put_image_asset, put_video_asset, update_project).
Process_add_asset_metadata ==
    \E p \in DOMAIN process_index, project_id \in ProcessProjects, asset_id \in ProcessAssets,
       project_key \in { None, "project_file_id" } :
        ProcessAdd(p, project_id, asset_id,
                   IF project_key = None THEN "image/png" ELSE "application/json", None, project_key)

\* Project.delete_project_metadata in process p: the copy loses the project,
\* the file is not written.
Process_delete_project_metadata ==
    \E p \in DOMAIN process_index, project_id \in ProcessProjects :
        /\ process_index' = [process_index EXCEPT ![p] = delete_project_metadata(@, project_id)]
        /\ process_op' = ProcessOp(p, "delete_project_metadata", project_id, None)
        /\ UNCHANGED << process_loaded, process_added, run_vars, storage_vars, chain_vars,
                        pipe_vars, decoder_vars >>

ProcessInit ==
    /\ backends = RegisteredBackends
    /\ remote = [ projects |-> <<>>, assets |-> {} ]
    /\ files = <<>>
    /\ index_file \in EarlierIndexFiles
    /\ metadata_index = load_metadata_index(<<>>)
    /\ handles = {}
    /\ minted = 0
    /\ op = NoOperation
    /\ RunIdle /\ ChainIdle /\ PipelineIdle /\ DecoderIdle /\ ProcessIdle

ProcessNext ==
    \/ Process_init_backends
    \/ Process_add_asset_metadata
    \/ Process_delete_project_metadata

ProcessSpec == ProcessInit /\ [][ProcessNext]_vars


(***************************************************************************)
(* C38: each process reads metadata_index.json once, in init_backends, and *)
(* every add_asset_metadata writes the whole copy of the calling process   *)
(* over the file, with no reload, lock or merge. The copy of a started     *)
(* process changes only by that process's own mutations; after an add the  *)
(* file is the dump of the adder's copy; and when two processes started    *)
(* from the same file, the first has added asset a that the second neither *)
(* loaded nor added, and the second has just added asset b, the file holds *)
(* b's entry and not a's: the last writer wins.                            *)
(***************************************************************************)
LastOp == process_op[1]

JustAdded(q) == process_op # <<>> /\ LastOp.process = q /\ LastOp.name = "add_asset_metadata"

FileIndex == load_metadata_index(index_file)

\* Asset a of project p is not in the copy process q loaded, and q has not
\* added it itself.
UnknownTo(q, project_id, asset_id) ==
    /\ asset_id \notin DOMAIN EntriesOf(process_loaded[q], project_id)
    /\ << project_id, asset_id >> \notin process_added[q]

LostUpdate(p, q, project_id, asset_id) ==
    /\ p # q
    /\ process_loaded[p] = process_loaded[q]
    /\ << project_id, asset_id >> \in process_added[p]
    /\ UnknownTo(q, project_id, asset_id)
    /\ JustAdded(q)

C38_LastWriterWins ==
    /\ [](\A q \in DOMAIN process_index :
            JustAdded(q) =>
                /\ index_file = save_metadata_index(process_index[q])
                /\ LastOp.asset \in DOMAIN EntriesOf(FileIndex, LastOp.project)
                /\ \A p \in DOMAIN process_index, project_id \in ProcessProjects, asset_id \in ProcessAssets :
                        LostUpdate(p, q, project_id, asset_id)
                            => asset_id \notin DOMAIN EntriesOf(FileIndex, project_id))
    /\ [][\A p \in DOMAIN process_index :
            /\ process_index'[p] # process_index[p]
                    => process_op'[1].process = p /\ process_op'[1].name # "init_backends"
            /\ process_loaded'[p] = process_loaded[p]]_vars

\* Both processes started from the file of the earlier run, process 1 added
\* id2, process 2 then added id1 again: the file has no entry of id2.
C38_Witness ==
    /\ DOMAIN process_index = Processes
    /\ process_loaded[1] # <<>>
    /\ LostUpdate(1, 2, IdOf(1), IdOf(2))
    /\ IdOf(2) \in DOMAIN process_index[1][IdOf(1)]
    /\ IdOf(1) \in DOMAIN EntriesOf(FileIndex, IdOf(1))
    /\ IdOf(2) \notin DOMAIN EntriesOf(FileIndex, IdOf(1))

====
